---------------------------- MODULE Spec2Model ----------------------------
(***************************************************************************)
(* PyDBC: the DML statement builder (data/dml.py), its SQL vocabulary      *)
(* (data/sqlutils.py, connector/constants.py) and the identifier quoting   *)
(* of a dialect (pydbc/dialect/base_dialect.py).                           *)
(*                                                                         *)
(* Python values are modelled as follows.                                  *)
(*   - text is a TLA+ string; "".join(buffer) is string concatenation;     *)
(*   - an attribute that may be None is a tuple: <<>> is None, <<v>> is v; *)
(*   - a column value (any Python object) is a tagged record, see PyStr;   *)
(*   - a raised exception is the text "!" followed by the exception name,  *)
(*     and a None returned where text is expected is the text "!None".     *)
(***************************************************************************)
EXTENDS Integers, Sequences, FiniteSets, TLC

(***************************************************************************)
(* connector/constants.py                                                  *)
(***************************************************************************)
CompareTypes_EQUALS == 0
CompareTypes_NOT_EQUAL == 1
CompareTypes_GREATER_THAN == 2
CompareTypes_GREATER_THAN_OR_EQUAL == 3
CompareTypes_LESS_THAN == 4
CompareTypes_LESS_THAN_OR_EQUAL == 5
CompareTypes_BEGINS_WITH == 6
CompareTypes_NOT_BEGIN_WITH == 7
CompareTypes_ENDS_WITH == 8
CompareTypes_NOT_END_WITH == 9
CompareTypes_CONTAINS == 10
CompareTypes_NOT_CONTAIN == 11
CompareTypes_IN == 12
CompareTypes_NOT_IN == 13
CompareTypes_NULL == 14
CompareTypes_NOT_NULL == 15

ValueTypes_STRING == 0
ValueTypes_INTEGER == 1

RelationTypes_AND == 0
RelationTypes_OR == 1

JoinTypes_INNER_JOIN == 0
JoinTypes_RIGHT_JOIN == 1
JoinTypes_LEFT_JOIN == 2
JoinTypes_FULL_JOIN == 3

AggregateFunctions_AVG == 0
AggregateFunctions_COUNT == 1
AggregateFunctions_SUM == 2
AggregateFunctions_MAX == 3
AggregateFunctions_MIN == 4

\* A code that is none of the codes of any enumeration (the tests pass -1).
UnknownCode == -1

(***************************************************************************)
(* Python values                                                           *)
(***************************************************************************)
None == <<>>

Some(v) == <<v>>

PyNone == [t |-> "None", s |-> "", n |-> 0]

PyStr(text) == [t |-> "str", s |-> text, n |-> 0]

PyInt(num) == [t |-> "int", s |-> "", n |-> num]

TypeError == "!TypeError"

NoneColumnNameError == "!NoneColumnNameError"

NoneTableNameError == "!NoneTableNameError"

UnsupportedJoinTypeError == "!UnsupportedJoinTypeError"

\* None where a str is expected (Column.to_sql returns it, dml.py:386).
NoneText == "!None"

Raised == {TypeError, NoneColumnNameError, NoneTableNameError,
           UnsupportedJoinTypeError}

\* TLC binds the values that the quantifiers of a next-state relation range
\* over once, and all its workers read them: comparing such a value with
\* itself puts its records and sets in TLC's canonical form before that.
Canonical(v) == IF v = v THEN v ELSE v

\* `if x:` for an attribute holding None or a str.
Truthy(opt) == opt # None /\ opt[1] # ""

\* str(val) for a column value.
PyToStr(val) ==
    IF val.t = "str" THEN val.s
    ELSE IF val.t = "int" THEN ToString(val.n)
    ELSE "None"

\* `needle in text` for two strs.
StrContains(text, needle) ==
    \E i \in 1..Len(text) :
        /\ i + Len(needle) - 1 <= Len(text)
        /\ SubSeq(text, i, i + Len(needle) - 1) = needle

StartsWith(text, prefix) ==
    /\ Len(text) >= Len(prefix)
    /\ SubSeq(text, 1, Len(prefix)) = prefix

RECURSIVE Concat(_)
Concat(buffer) ==
    IF buffer = <<>> THEN "" ELSE Head(buffer) \o Concat(Tail(buffer))

\* "".join(buffer), for a buffer built left to right: an exception raised while
\* an element was computed leaves first; a None in the buffer makes join raise
\* TypeError.
StrJoin(buffer) ==
    IF \E i \in 1..Len(buffer) : buffer[i] \in Raised
    THEN buffer[CHOOSE i \in 1..Len(buffer) :
                    /\ buffer[i] \in Raised
                    /\ \A j \in 1..(i - 1) : buffer[j] \notin Raised]
    ELSE IF \E i \in 1..Len(buffer) : buffer[i] = NoneText
    THEN TypeError
    ELSE Concat(buffer)

(***************************************************************************)
(* pydbc/dialect/base_dialect.py                                           *)
(***************************************************************************)
\* The base dialect quotes with nothing; a dialect is given by its two quote
\* attributes.
Dialect == [_table_quote |-> "", _column_quote |-> ""]

QuotingDialect == [_table_quote |-> "^", _column_quote |-> "\""]

Dialects == Canonical({Dialect, QuotingDialect})

column2sql(dialect, column_name) ==
    Concat(<<dialect._column_quote, column_name, dialect._column_quote>>)

table2sql(dialect, table_name) ==
    Concat(<<dialect._table_quote, table_name, dialect._table_quote>>)

(***************************************************************************)
(* data/sqlutils.py                                                        *)
(***************************************************************************)
\* value += "%" and "%" + value: a str is concatenated, anything else raises.
PyAppend(val, suffix) ==
    IF val.t = "str" THEN [raised |-> "", value |-> PyStr(val.s \o suffix)]
    ELSE [raised |-> TypeError, value |-> val]

\* A concatenation that puts the prefix after the value.
PyPrepend_after(prefix, val) ==
    IF val.t = "str" THEN [raised |-> "", value |-> PyStr(val.s \o prefix)]
    ELSE [raised |-> TypeError, value |-> val]

PyPrepend(prefix, val) ==
    IF val.t = "str" THEN [raised |-> "", value |-> PyStr(prefix \o val.s)]
    ELSE [raised |-> TypeError, value |-> val]

PyWrap(prefix, val, suffix) ==
    IF val.t = "str"
    THEN [raised |-> "", value |-> PyStr(prefix \o val.s \o suffix)]
    ELSE [raised |-> TypeError, value |-> val]

Unchanged(val) == [raised |-> "", value |-> val]

\* A code argument is None or Some(code). Returns [operator, value, raised]:
\* the pair (operator, value), or the exception raised.
get_operator_with_value(compare_type, value) ==
    LET ret(operator, r) ==
            [operator |-> operator, value |-> r.value, raised |-> r.raised]
    IN  CASE compare_type = Some(CompareTypes_EQUALS) -> ret("=", Unchanged(value))
          [] compare_type = Some(CompareTypes_NOT_EQUAL) -> ret("!=", Unchanged(value))
          [] compare_type = Some(CompareTypes_GREATER_THAN) ->
                ret(">", Unchanged(value))
          [] compare_type = Some(CompareTypes_GREATER_THAN_OR_EQUAL) ->
                ret(">=", Unchanged(value))
          [] compare_type = Some(CompareTypes_LESS_THAN) -> ret("<", Unchanged(value))
          [] compare_type = Some(CompareTypes_LESS_THAN_OR_EQUAL) ->
                ret("<=", Unchanged(value))
          [] compare_type = Some(CompareTypes_BEGINS_WITH) ->
                ret(" LIKE ", PyAppend(value, "%"))
          [] compare_type = Some(CompareTypes_NOT_BEGIN_WITH) ->
                ret(" NOT LIKE ", PyAppend(value, "%"))
          [] compare_type = Some(CompareTypes_ENDS_WITH) ->
                ret(" LIKE ", PyPrepend("%", value))
          [] compare_type = Some(CompareTypes_NOT_END_WITH) ->
                ret(" NOT LIKE ", PyPrepend("%", value))
          [] compare_type = Some(CompareTypes_CONTAINS) ->
                ret(" LIKE ", PyWrap("%", value, "%"))
          [] compare_type = Some(CompareTypes_NOT_CONTAIN) ->
                ret(" NOT LIKE ", PyWrap("%", value, "%"))
          [] compare_type = Some(CompareTypes_IN) -> ret(" IN ", Unchanged(value))
          [] compare_type = Some(CompareTypes_NOT_IN) ->
                ret(" NOT IN ", Unchanged(value))
          [] compare_type = Some(CompareTypes_NULL) ->
                ret(" IS NULL", Unchanged(PyStr("")))
          [] compare_type = Some(CompareTypes_NOT_NULL) ->
                ret(" IS NOT NULL", Unchanged(PyStr("")))
          [] OTHER -> ret("=", Unchanged(value))

\* A relation lookup that returns None for what is neither AND nor OR.
get_sql_relation_or_none(relation) ==
    IF relation = Some(RelationTypes_AND) THEN " AND "
    ELSE IF relation = Some(RelationTypes_OR) THEN " OR "
    ELSE NoneText

\* relation is None or a code.
get_sql_relation(relation) ==
    IF relation = Some(RelationTypes_AND) THEN " AND " ELSE " OR "

\* An order type lookup with the two texts exchanged.
get_sql_order_type_exchanged(asc) == IF ~asc THEN " ASC" ELSE " DESC"

get_sql_order_type(asc) == IF ~asc THEN " DESC" ELSE " ASC"

\* An aggregate lookup that returns the column for a code it does not know.
get_aggr_func_with_column_or_column(func_type, column_name) ==
    CASE func_type = Some(AggregateFunctions_AVG) -> "AVG(" \o column_name \o ")"
      [] func_type = Some(AggregateFunctions_COUNT) -> "COUNT(" \o column_name \o ")"
      [] func_type = Some(AggregateFunctions_MAX) -> "MAX(" \o column_name \o ")"
      [] func_type = Some(AggregateFunctions_MIN) -> "MIN(" \o column_name \o ")"
      [] func_type = Some(AggregateFunctions_SUM) -> "SUM(" \o column_name \o ")"
      [] OTHER -> column_name

\* An aggregate lookup in the order of the codes, which is AVG, COUNT, SUM,
\* MAX, MIN.
get_aggr_func_with_column_by_position(func_type, column_name) ==
    CASE func_type = Some(AggregateFunctions_AVG) -> "AVG(" \o column_name \o ")"
      [] func_type = Some(AggregateFunctions_COUNT) -> "COUNT(" \o column_name \o ")"
      [] func_type = Some(AggregateFunctions_SUM) -> "MAX(" \o column_name \o ")"
      [] func_type = Some(AggregateFunctions_MAX) -> "MIN(" \o column_name \o ")"
      [] func_type = Some(AggregateFunctions_MIN) -> "SUM(" \o column_name \o ")"
      [] OTHER -> NoneText

\* Returns the text, or NoneText for None.
get_aggr_func_with_column(func_type, column_name) ==
    CASE func_type = Some(AggregateFunctions_AVG) -> "AVG(" \o column_name \o ")"
      [] func_type = Some(AggregateFunctions_COUNT) -> "COUNT(" \o column_name \o ")"
      [] func_type = Some(AggregateFunctions_MAX) -> "MAX(" \o column_name \o ")"
      [] func_type = Some(AggregateFunctions_MIN) -> "MIN(" \o column_name \o ")"
      [] func_type = Some(AggregateFunctions_SUM) -> "SUM(" \o column_name \o ")"
      [] OTHER -> NoneText

\* The two helpers below are called by data/dml.py and tested by
\* test/base_test.py; data/sqlutils.py does not hold them.
\* A join lookup that falls back on the inner join.
get_sql_join_operator_inner(join) ==
    IF join = Some(JoinTypes_RIGHT_JOIN) THEN " RIGHT JOIN "
    ELSE IF join = Some(JoinTypes_LEFT_JOIN) THEN " LEFT JOIN "
    ELSE IF join = Some(JoinTypes_FULL_JOIN) THEN " FULL JOIN "
    ELSE " INNER JOIN "

get_sql_join_operator(join) ==
    IF join = Some(JoinTypes_INNER_JOIN) THEN " INNER JOIN "
    ELSE IF join = Some(JoinTypes_RIGHT_JOIN) THEN " RIGHT JOIN "
    ELSE IF join = Some(JoinTypes_LEFT_JOIN) THEN " LEFT JOIN "
    ELSE IF join = Some(JoinTypes_FULL_JOIN) THEN " FULL JOIN "
    ELSE NoneText

get_sql_as_keyword == " AS "

(***************************************************************************)
(* data/dml.py: Column                                                     *)
(***************************************************************************)
\* Column(name, is_first) for a name that is not None: the class attributes
\* (dml.py:332-341 and DMLBase._raw_sql) with name and is_first set.
Column(name, is_first) ==
    [name |-> name, table |-> None, func |-> None, value |-> PyNone,
     type |-> None, compare |-> None, relation |-> None, alias |-> None,
     asc |-> TRUE, is_first |-> is_first, _raw_sql |-> None]

\* `"'" in self.value or "\"" in self.value`: TRUE, FALSE, or TypeError for a
\* value that is not iterable.
HasQuote(value) ==
    IF value.t = "str"
    THEN IF StrContains(value.s, "'") \/ StrContains(value.s, "\"")
         THEN "True" ELSE "False"
    ELSE TypeError

\* A rendering that writes every value without quotes.
Column_to_sql_unquoted(self, dialect) ==
    LET col_name ==
            IF self.table # None
            THEN Concat(<<table2sql(dialect, self.table[1]), ".",
                          column2sql(dialect, self.name)>>)
            ELSE column2sql(dialect, self.name)
        guarded == self.value # PyNone /\ self.type = Some(ValueTypes_STRING)
        separator ==
            IF ~self.is_first
            THEN IF self.relation # None
                 THEN <<get_sql_relation(self.relation)>>
                 ELSE <<", ">>
            ELSE <<>>
        body ==
            IF self.func = None
            THEN <<col_name>> \o
                 (IF ~self.asc THEN <<get_sql_order_type(self.asc)>> ELSE <<>>)
            ELSE <<get_aggr_func_with_column(self.func, col_name)>>
        opv == get_operator_with_value(self.compare, self.value)
        quoted == PyToStr(opv.value)
        comparison ==
            IF self.compare # None /\ self.value # PyNone
            THEN IF opv.raised # "" THEN <<opv.raised>>
                 ELSE <<opv.operator, quoted>>
            ELSE <<>>
        alias ==
            IF self.alias # None
            THEN <<get_sql_as_keyword, column2sql(dialect, self.alias[1])>>
            ELSE <<>>
    IN  IF Truthy(self._raw_sql) THEN self._raw_sql[1]
        ELSE IF guarded /\ HasQuote(self.value) = TypeError THEN TypeError
        ELSE IF guarded /\ HasQuote(self.value) = "True" THEN NoneText
        ELSE StrJoin(separator \o body \o comparison \o alias)

\* The text of the column, NoneText for None, or the exception raised.
Column_to_sql(self, dialect) ==
    LET col_name ==
            IF self.table # None
            THEN Concat(<<table2sql(dialect, self.table[1]), ".",
                          column2sql(dialect, self.name)>>)
            ELSE column2sql(dialect, self.name)
        guarded == self.value # PyNone /\ self.type = Some(ValueTypes_STRING)
        separator ==
            IF ~self.is_first
            THEN IF self.relation # None
                 THEN <<get_sql_relation(self.relation)>>
                 ELSE <<", ">>
            ELSE <<>>
        body ==
            IF self.func = None
            THEN <<col_name>> \o
                 (IF ~self.asc THEN <<get_sql_order_type(self.asc)>> ELSE <<>>)
            ELSE <<get_aggr_func_with_column(self.func, col_name)>>
        opv == get_operator_with_value(self.compare, self.value)
        quoted ==
            IF self.type = Some(ValueTypes_STRING)
            THEN IF opv.value.t = "str"
                 THEN Concat(<<"'", opv.value.s, "'">>)
                 ELSE TypeError
            ELSE PyToStr(opv.value)
        comparison ==
            IF self.compare # None /\ self.value # PyNone
            THEN IF opv.raised # "" THEN <<opv.raised>>
                 ELSE <<opv.operator, quoted>>
            ELSE <<>>
        alias ==
            IF self.alias # None
            THEN <<get_sql_as_keyword, column2sql(dialect, self.alias[1])>>
            ELSE <<>>
    IN  IF Truthy(self._raw_sql) THEN self._raw_sql[1]
        ELSE IF guarded /\ HasQuote(self.value) = TypeError THEN TypeError
        ELSE IF guarded /\ HasQuote(self.value) = "True" THEN NoneText
        ELSE StrJoin(separator \o body \o comparison \o alias)

(***************************************************************************)
(* data/dml.py: DMLBase, ClauseBase and the four clauses                   *)
(*                                                                         *)
(* An object is a record: cls is its class, the other fields its           *)
(* attributes.  The list attribute of a class (ClauseBase._columns,        *)
(* JoinedConditions._conditions, JoinedTables._tables, Select._columns) is *)
(* a class attribute holding one list; an instance finds that list unless  *)
(* its own attribute was assigned, which `own` records.                    *)
(***************************************************************************)
VARIABLES
    objs,                         \* the instances the caller holds, by name
    ClauseBase_columns,           \* the list of ClauseBase._columns
    JoinedConditions_conditions,  \* the list of JoinedConditions._conditions
    JoinedTables_tables,          \* the list of JoinedTables._tables
    Select_columns,               \* the list of Select._columns
    ret                           \* the last call and what it returned

vars == <<objs, ClauseBase_columns, JoinedConditions_conditions,
          JoinedTables_tables, Select_columns, ret>>

ClauseClasses == {"Where", "Having", "GroupBy", "OrderBy"}

\* ClauseBase.__init__: the instance gets a list of its own.
\* A constructor that does not give the instance a list of its own, so that
\* the instance falls back on the list of the class.
ClauseBase_init_class_list(cls) ==
    [cls |-> cls, _raw_sql |-> None, own |-> FALSE, _columns |-> <<>>]

ClauseBase_init(cls) ==
    [cls |-> cls, _raw_sql |-> None, own |-> TRUE, _columns |-> <<>>]

\* self._columns
ClauseBase_get_columns(self) ==
    IF self.own THEN self._columns ELSE ClauseBase_columns

ClauseBase_get_size(self) == Len(ClauseBase_get_columns(self))

create_keyword(self) ==
    CASE self.cls = "Where" -> " WHERE "
      [] self.cls = "Having" -> " HAVING "
      [] self.cls = "GroupBy" -> " GROUP BY "
      [] self.cls = "OrderBy" -> " ORDER BY "
      [] self.cls = "JoinedConditions" -> " ON "
      [] self.cls = "Select" ->
            IF self._distinct THEN "SELECT DISTINCT " ELSE "SELECT "
      [] OTHER -> ""

\* The buffer of ClauseBase.to_sql: a column that renders to None is left out.
RECURSIVE ClauseBase_buffer(_, _)
ClauseBase_buffer(columns, dialect) ==
    IF columns = <<>> THEN <<>>
    ELSE LET column == Column_to_sql(Head(columns), dialect)
         IN  (IF column # NoneText THEN <<column>> ELSE <<>>)
             \o ClauseBase_buffer(Tail(columns), dialect)

\* A rendering that keeps the columns after the raw SQL text.
ClauseBase_to_sql_raw_and_columns(self, dialect) ==
    IF Truthy(self._raw_sql)
    THEN StrJoin(<<create_keyword(self), self._raw_sql[1]>>
                 \o ClauseBase_buffer(ClauseBase_get_columns(self), dialect))
    ELSE IF ClauseBase_get_size(self) > 0
    THEN StrJoin(<<create_keyword(self)>>
                 \o ClauseBase_buffer(ClauseBase_get_columns(self), dialect))
    ELSE StrJoin(<<>>)

ClauseBase_to_sql(self, dialect) ==
    IF Truthy(self._raw_sql)
    THEN StrJoin(<<create_keyword(self), self._raw_sql[1]>>)
    ELSE IF ClauseBase_get_size(self) > 0
    THEN StrJoin(<<create_keyword(self)>>
                 \o ClauseBase_buffer(ClauseBase_get_columns(self), dialect))
    ELSE StrJoin(<<>>)

\* DMLBase.set_raw_sql: sql is None or Some(text).
set_raw_sql(self, sql) == [self EXCEPT !._raw_sql = sql]

\* A clear that empties the columns and leaves the raw SQL text.
ClauseBase_clear_keeps_raw_sql(self) ==
    [self EXCEPT !.own = TRUE, !._columns = <<>>]

\* ClauseBase.clear
ClauseBase_clear(self) ==
    [self EXCEPT !._raw_sql = None, !.own = TRUE, !._columns = <<>>]

\* The column each add_column builds; column_name is not None.
Where_column(is_first, column_name, column_value, table_name, column_type, compare_type, relation_type) ==
    [Column(column_name, is_first) EXCEPT
        !.value = column_value, !.table = table_name, !.type = column_type,
        !.compare = compare_type, !.relation = relation_type]

Having_column(is_first, column_name, aggr_func, column_value, table_name, column_type, compare_type, relation_type) ==
    [Column(column_name, is_first) EXCEPT
        !.func = aggr_func, !.value = column_value, !.table = table_name,
        !.type = column_type, !.compare = compare_type,
        !.relation = relation_type]

GroupBy_column(is_first, column_name, table_name) ==
    [Column(column_name, is_first) EXCEPT !.table = table_name]

OrderBy_column(is_first, column_name, asc, table_name) ==
    [Column(column_name, is_first) EXCEPT !.asc = asc, !.table = table_name]

(***************************************************************************)
(* data/dml.py: Condition and JoinedConditions                             *)
(***************************************************************************)
\* A constructor that only asks for column_1.
Condition_raises_without_column_1(column_1, column_2) == column_1 = None

\* Condition.__init__ raises for these arguments (column_1 and column_2 are
\* None or Some(column)).
Condition_raises(column_1, column_2) ==
    column_1 = None \/ (column_1[1].value = PyNone /\ column_2 = None)

Condition(column_1, column_2, compare_type, relation_type, is_first) ==
    [column_1 |-> column_1[1], column_2 |-> column_2, compare |-> compare_type,
     relation |-> relation_type, is_first |-> is_first]

Condition_to_sql(self, dialect) ==
    StrJoin(
        (IF ~self.is_first THEN <<get_sql_relation(self.relation)>> ELSE <<>>)
        \o <<Column_to_sql(self.column_1, dialect)>>
        \o (IF self.column_1.value = PyNone
            THEN <<get_operator_with_value(self.compare, PyStr("")).operator,
                   Column_to_sql(self.column_2[1], dialect)>>
            ELSE <<>>))

\* JoinedConditions.__init__
JoinedConditions_init ==
    [cls |-> "JoinedConditions", _raw_sql |-> None, own |-> TRUE,
         _conditions |-> <<>>]

JoinedConditions_get_conditions(self) ==
    IF self.own THEN self._conditions ELSE JoinedConditions_conditions

JoinedConditions_get_size(self) == Len(JoinedConditions_get_conditions(self))

JoinedConditions_clear(self) ==
    [self EXCEPT !._raw_sql = None, !.own = TRUE, !._conditions = <<>>]

\* A rendering that writes the keyword whether or not there are conditions.
JoinedConditions_to_sql_keyword_always(self, dialect) ==
    LET conditions == JoinedConditions_get_conditions(self)
    IN  StrJoin(
            <<create_keyword(self)>>
            \o [i \in 1..Len(conditions) |->
                    Condition_to_sql(conditions[i], dialect)])

JoinedConditions_to_sql(self, dialect) ==
    LET conditions == JoinedConditions_get_conditions(self)
    IN  StrJoin(
            (IF JoinedConditions_get_size(self) > 0
             THEN <<create_keyword(self)>> ELSE <<>>)
            \o [i \in 1..Len(conditions) |->
                    Condition_to_sql(conditions[i], dialect)])

(***************************************************************************)
(* data/dml.py: Select                                                     *)
(***************************************************************************)
\* Select(): the class has no __init__, so a new instance has no attribute of
\* its own and finds the class attributes (dml.py:889-895).
Select_new ==
    [cls |-> "Select", _raw_sql |-> None, _distinct |-> FALSE,
     _tables |-> None, _where |-> None, _having |-> None,
     _group_by |-> None, _order_by |-> None]

\* The column Select.add_column builds; column_name is not None.
Select_column(is_first, column_name, table_name, aggr_func, alias) ==
    [Column(column_name, is_first) EXCEPT
        !.table = table_name, !.func = aggr_func, !.alias = alias]

\* `if self._where:` and the like: an attribute that holds a clause is true.
Select_clause(clause, dialect) ==
    IF clause # None THEN <<ClauseBase_to_sql(clause[1], dialect)>> ELSE <<>>

\* A rendering with the GROUP BY fragment ahead of the HAVING fragment.
Select_to_sql_group_by_first(self, dialect) ==
    IF Truthy(self._raw_sql)
    THEN StrJoin(<<create_keyword(self), self._raw_sql[1]>>)
    ELSE IF Len(Select_columns) > 0
    THEN StrJoin(<<create_keyword(self)>>
                 \o [i \in 1..Len(Select_columns) |->
                       Column_to_sql(Select_columns[i], dialect)]
                 \o Select_clause(self._where, dialect)
                 \o Select_clause(self._group_by, dialect)
                 \o Select_clause(self._having, dialect)
                 \o Select_clause(self._order_by, dialect))
    ELSE StrJoin(<<>>)

\* A rendering that keeps the clauses after the raw SQL text.
Select_to_sql_raw_and_clauses(self, dialect) ==
    IF Truthy(self._raw_sql)
    THEN StrJoin(<<create_keyword(self), self._raw_sql[1]>>
                 \o Select_clause(self._where, dialect)
                 \o Select_clause(self._having, dialect)
                 \o Select_clause(self._group_by, dialect)
                 \o Select_clause(self._order_by, dialect))
    ELSE IF Len(Select_columns) > 0
    THEN StrJoin(<<create_keyword(self)>>
                 \o [i \in 1..Len(Select_columns) |->
                       Column_to_sql(Select_columns[i], dialect)]
                 \o Select_clause(self._where, dialect)
                 \o Select_clause(self._having, dialect)
                 \o Select_clause(self._group_by, dialect)
                 \o Select_clause(self._order_by, dialect))
    ELSE StrJoin(<<>>)

Select_to_sql(self, dialect) ==
    IF Truthy(self._raw_sql)
    THEN StrJoin(<<create_keyword(self), self._raw_sql[1]>>)
    ELSE IF Len(Select_columns) > 0
    THEN StrJoin(<<create_keyword(self)>>
                 \o [i \in 1..Len(Select_columns) |->
                        Column_to_sql(Select_columns[i], dialect)]
                 \o Select_clause(self._where, dialect)
                 \o Select_clause(self._having, dialect)
                 \o Select_clause(self._group_by, dialect)
                 \o Select_clause(self._order_by, dialect))
    ELSE StrJoin(<<>>)

(***************************************************************************)
(* data/dml.py: Table and JoinedTables                                     *)
(***************************************************************************)
\* Table.__init__ raises for these arguments.
Table_raises(name, alias, select) ==
    name = None /\ ~(select # None /\ alias # None)

Table(name, alias, select, is_first) ==
    [name |-> name,
     alias |-> alias,
     select |-> IF name = None THEN select ELSE None,
     join |-> None, condition |-> None, is_first |-> is_first,
     _raw_sql |-> None]

\* A rendering that writes no keyword for a join type it does not know.
Table_to_sql_skips_unknown_join(self, dialect) ==
    LET join == get_sql_join_operator(self.join)
        prefix ==
            IF ~self.is_first
            THEN IF join # NoneText THEN <<join>> ELSE <<>>
            ELSE <<>>
        table ==
            IF self.name # None
            THEN <<table2sql(dialect, self.name[1])>>
                 \o (IF self.alias # None
                     THEN <<get_sql_as_keyword,
                            table2sql(dialect, self.alias[1])>>
                     ELSE <<>>)
            ELSE IF self.select # None /\ self.alias # None
            THEN <<StrJoin(<<"(", Select_to_sql(self.select[1], dialect), ")",
                             get_sql_as_keyword,
                             table2sql(dialect, self.alias[1])>>)>>
            ELSE <<NoneTableNameError>>
        condition ==
            IF ~self.is_first
            THEN <<JoinedConditions_to_sql(self.condition[1], dialect)>>
            ELSE <<>>
    IN  IF Truthy(self._raw_sql) THEN self._raw_sql[1]
        ELSE StrJoin(prefix \o table \o condition)

Table_to_sql(self, dialect) ==
    LET join == get_sql_join_operator(self.join)
        prefix ==
            IF ~self.is_first
            THEN IF join # NoneText THEN <<join>>
                 ELSE <<UnsupportedJoinTypeError>>
            ELSE <<>>
        table ==
            IF self.name # None
            THEN <<table2sql(dialect, self.name[1])>>
                 \o (IF self.alias # None
                     THEN <<get_sql_as_keyword,
                            table2sql(dialect, self.alias[1])>>
                     ELSE <<>>)
            ELSE IF self.select # None /\ self.alias # None
            THEN <<StrJoin(<<"(", Select_to_sql(self.select[1], dialect), ")",
                             get_sql_as_keyword,
                             table2sql(dialect, self.alias[1])>>)>>
            ELSE <<NoneTableNameError>>
        condition ==
            IF ~self.is_first
            THEN <<JoinedConditions_to_sql(self.condition[1], dialect)>>
            ELSE <<>>
    IN  IF Truthy(self._raw_sql) THEN self._raw_sql[1]
        ELSE StrJoin(prefix \o table \o condition)

\* JoinedTables.__init__
JoinedTables_init ==
    [cls |-> "JoinedTables", _raw_sql |-> None, own |-> TRUE, _tables |-> <<>>]

JoinedTables_get_tables(self) ==
    IF self.own THEN self._tables ELSE JoinedTables_tables

JoinedTables_get_size(self) == Len(JoinedTables_get_tables(self))

JoinedTables_clear(self) ==
    [self EXCEPT !._raw_sql = None, !.own = TRUE, !._tables = <<>>]

JoinedTables_to_sql(self, dialect) ==
    LET tables == JoinedTables_get_tables(self)
    IN  IF Truthy(self._raw_sql) THEN self._raw_sql[1]
        ELSE StrJoin([i \in 1..Len(tables) |-> Table_to_sql(tables[i], dialect)])

(***************************************************************************)
(* The calls of a program that builds statements.  A program holds its     *)
(* instances by name (Slots); an object passed to a setter or to add_table *)
(* is no longer changed by the program, so the attribute holds its value.  *)
(***************************************************************************)
\* The most elements a program adds to one list.
MaxSize == 2

Slots == {"a", "b"}

Free == [cls |-> "free"]

\* to_sql of the instance's class.
to_sql(self, dialect) ==
    CASE self.cls \in ClauseClasses -> ClauseBase_to_sql(self, dialect)
      [] self.cls = "JoinedConditions" -> JoinedConditions_to_sql(self, dialect)
      [] self.cls = "JoinedTables" -> JoinedTables_to_sql(self, dialect)
      [] self.cls = "Select" -> Select_to_sql(self, dialect)

\* The classes whose instances have get_size and clear.
Containers == ClauseClasses \cup {"JoinedConditions", "JoinedTables"}

\* What a program sees of the container it holds under name p: its size and
\* its text.
Observed(p) ==
    CASE objs[p].cls \in ClauseClasses ->
            Some([size |-> ClauseBase_get_size(objs[p]),
                  text |-> ClauseBase_to_sql(objs[p], Dialect)])
      [] objs[p].cls = "JoinedConditions" ->
            Some([size |-> JoinedConditions_get_size(objs[p]),
                  text |-> JoinedConditions_to_sql(objs[p], Dialect)])
      [] objs[p].cls = "JoinedTables" ->
            Some([size |-> JoinedTables_get_size(objs[p]),
                  text |-> JoinedTables_to_sql(objs[p], Dialect)])
      [] OTHER -> None

\* What the program saw of its other instances just before a call on o.
Others(o) ==
    [a |-> IF o = "a" THEN None ELSE Observed("a"),
     b |-> IF o = "b" THEN None ELSE Observed("b")]

NoCall == [call |-> "", self |-> "", out |-> ""]

\* What a call that returns None, or raises, leaves in ret.
Returned(call, o, out) == [call |-> call, self |-> o, out |-> out]

\* What a call that added to or cleared a container leaves in ret.
Changed(call, o) ==
    [call |-> call, self |-> o, out |-> NoneText, others |-> Others(o)]

\* The arguments of Select.add_column
SelectColumnArgs ==
    Canonical({ [column_name |-> Some("alpha"), table_name |-> None, aggr_func |-> None,
           alias |-> None],
          [column_name |-> Some("beta"), table_name |-> Some("foo"),
           aggr_func |-> Some(AggregateFunctions_SUM), alias |-> Some("sum_b")],
          [column_name |-> None, table_name |-> None, aggr_func |-> None,
           alias |-> None] })

\* The arguments of set_raw_sql
RawSqlArgs == Canonical({None, Some(""), Some("1 AS one")})

\* The arguments of Where.add_column, Having.add_column, GroupBy.add_column
\* and OrderBy.add_column
WhereArgs ==
    Canonical({ [column_name |-> Some("alpha"), column_value |-> PyInt(1),
           table_name |-> None, column_type |-> Some(ValueTypes_INTEGER),
           compare_type |-> Some(CompareTypes_LESS_THAN_OR_EQUAL),
           relation_type |-> Some(RelationTypes_AND)],
          [column_name |-> None, column_value |-> PyInt(1),
           table_name |-> None, column_type |-> Some(ValueTypes_STRING),
           compare_type |-> Some(CompareTypes_EQUALS),
           relation_type |-> Some(RelationTypes_AND)] })

HavingArgs ==
    Canonical({ [column_name |-> Some("delta"),
           aggr_func |-> Some(AggregateFunctions_AVG), column_value |-> PyInt(1),
           table_name |-> None, column_type |-> Some(ValueTypes_INTEGER),
           compare_type |-> Some(CompareTypes_EQUALS),
           relation_type |-> Some(RelationTypes_AND)],
          [column_name |-> None,
           aggr_func |-> Some(AggregateFunctions_AVG), column_value |-> PyInt(1),
           table_name |-> None, column_type |-> Some(ValueTypes_INTEGER),
           compare_type |-> Some(CompareTypes_EQUALS),
           relation_type |-> Some(RelationTypes_AND)] })

GroupByArgs ==
    Canonical({ [column_name |-> Some("gamma"), table_name |-> None],
          [column_name |-> None, table_name |-> None] })

OrderByArgs ==
    Canonical({ [column_name |-> Some("gamma"), asc |-> FALSE, table_name |-> None],
          [column_name |-> None, asc |-> TRUE, table_name |-> None] })

ClauseArgs(cls) ==
    CASE cls = "Where" -> WhereArgs
      [] cls = "Having" -> HavingArgs
      [] cls = "GroupBy" -> GroupByArgs
      [] cls = "OrderBy" -> OrderByArgs
      [] OTHER -> {}

\* The column add_column of class cls builds from args.
ClauseColumn(cls, is_first, args) ==
    CASE cls = "Where" ->
            Where_column(is_first, args.column_name[1], args.column_value,
                         args.table_name, args.column_type, args.compare_type,
                         args.relation_type)
      [] cls = "Having" ->
            Having_column(is_first, args.column_name[1], args.aggr_func,
                          args.column_value, args.table_name, args.column_type,
                          args.compare_type, args.relation_type)
      [] cls = "GroupBy" ->
            GroupBy_column(is_first, args.column_name[1], args.table_name)
      [] cls = "OrderBy" ->
            OrderBy_column(is_first, args.column_name[1], args.asc,
                           args.table_name)

\* add_column of a clause, on the instance: the column is appended to the list
\* the instance finds.  Only the instance's own list is in the result; the
\* class's list is ClauseBase_columns.
ClauseBase_add_column(self, args) ==
    LET is_first == ClauseBase_get_size(self) = 0
    IN  [self EXCEPT !._columns =
            IF self.own THEN Append(@, ClauseColumn(self.cls, is_first, args))
            ELSE @]

\* Where(), Having(), GroupBy(), OrderBy()
Call_Clause(o, cls) ==
    /\ objs[o] = Free
    /\ objs' = [objs EXCEPT ![o] = ClauseBase_init(cls)]
    /\ ret' = Returned("__init__", o, NoneText)
    /\ UNCHANGED <<ClauseBase_columns, JoinedConditions_conditions,
                   JoinedTables_tables, Select_columns>>

\* An add_column that returns without a word when it is given no name.
Call_add_column_silent(o, args) ==
    LET self == objs[o]
        is_first == ClauseBase_get_size(self) = 0
    IN  /\ self.cls \in ClauseClasses
        /\ ClauseBase_get_size(self) < MaxSize
        /\ IF args.column_name # None
           THEN /\ objs' = [objs EXCEPT ![o] = ClauseBase_add_column(self, args)]
                /\ ClauseBase_columns' =
                       IF self.own THEN ClauseBase_columns
                       ELSE Append(ClauseBase_columns,
                                   ClauseColumn(self.cls, is_first, args))
                /\ ret' = Changed("add_column", o)
           ELSE /\ ret' = Returned("add_column", o, NoneText)
                /\ UNCHANGED <<objs, ClauseBase_columns>>
        /\ UNCHANGED <<JoinedConditions_conditions, JoinedTables_tables,
                       Select_columns>>

\* Where.add_column, Having.add_column, GroupBy.add_column, OrderBy.add_column
Call_add_column(o, args) ==
    LET self == objs[o]
        is_first == ClauseBase_get_size(self) = 0
    IN  /\ self.cls \in ClauseClasses
        /\ ClauseBase_get_size(self) < MaxSize
        /\ IF args.column_name # None
           THEN /\ objs' = [objs EXCEPT ![o] = ClauseBase_add_column(self, args)]
                /\ ClauseBase_columns' =
                       IF self.own THEN ClauseBase_columns
                       ELSE Append(ClauseBase_columns,
                                   ClauseColumn(self.cls, is_first, args))
                /\ ret' = Changed("add_column", o)
           ELSE /\ ret' = Returned("add_column", o, NoneColumnNameError)
                /\ UNCHANGED <<objs, ClauseBase_columns>>
        /\ UNCHANGED <<JoinedConditions_conditions, JoinedTables_tables,
                       Select_columns>>

\* DMLBase.set_raw_sql, on an instance of any class
Call_set_raw_sql(o, sql) ==
    /\ objs[o] # Free
    /\ objs' = [objs EXCEPT ![o] = set_raw_sql(@, sql)]
    /\ ret' = Returned("set_raw_sql", o, NoneText)
    /\ UNCHANGED <<ClauseBase_columns, JoinedConditions_conditions,
                   JoinedTables_tables, Select_columns>>

\* ClauseBase.clear
Call_clear(o) ==
    /\ objs[o].cls \in ClauseClasses
    /\ objs' = [objs EXCEPT ![o] = ClauseBase_clear(@)]
    /\ ret' = Changed("clear", o)
    /\ UNCHANGED <<ClauseBase_columns, JoinedConditions_conditions,
                   JoinedTables_tables, Select_columns>>

\* Columns a program builds for join conditions, as the tests do:
\* Column("alpha") with table "foo", and so on.
ColumnFooAlpha == [Column("alpha", TRUE) EXCEPT !.table = Some("foo")]

ColumnBarBeta == [Column("beta", TRUE) EXCEPT !.table = Some("bar")]

ColumnFooAlphaLess10 ==
    [Column("alpha", TRUE) EXCEPT
            !.table = Some("foo"), !.value = PyInt(10),
            !.compare = Some(CompareTypes_LESS_THAN)]

\* The arguments of JoinedConditions.add_condition
ConditionArgs ==
    Canonical({ [column_1 |-> Some(ColumnFooAlpha), column_2 |-> Some(ColumnBarBeta),
           compare_type |-> Some(CompareTypes_EQUALS),
           relation_type |-> Some(RelationTypes_AND)],
          [column_1 |-> Some(ColumnFooAlphaLess10), column_2 |-> None,
           compare_type |-> Some(CompareTypes_EQUALS),
           relation_type |-> Some(RelationTypes_OR)],
          [column_1 |-> Some(ColumnFooAlpha), column_2 |-> None,
           compare_type |-> Some(CompareTypes_EQUALS),
           relation_type |-> Some(RelationTypes_AND)],
          [column_1 |-> None, column_2 |-> Some(ColumnBarBeta),
           compare_type |-> Some(CompareTypes_EQUALS),
           relation_type |-> Some(RelationTypes_AND)] })

\* JoinedConditions.add_condition, on the instance (the arguments do not make
\* Condition raise).
JoinedConditions_add_condition(self, args) ==
    LET is_first == JoinedConditions_get_size(self) = 0
    IN  [self EXCEPT !._conditions =
            IF self.own
            THEN Append(@, Condition(args.column_1, args.column_2,
                                     args.compare_type, args.relation_type,
                                     is_first))
            ELSE @]

\* JoinedConditions()
Call_JoinedConditions(o) ==
    /\ objs[o] = Free
    /\ objs' = [objs EXCEPT ![o] = JoinedConditions_init]
    /\ ret' = Returned("__init__", o, NoneText)
    /\ UNCHANGED <<ClauseBase_columns, JoinedConditions_conditions,
                   JoinedTables_tables, Select_columns>>

\* JoinedConditions.add_condition
Call_add_condition(o, args) ==
    LET self == objs[o]
        is_first == JoinedConditions_get_size(self) = 0
    IN  /\ self.cls = "JoinedConditions"
        /\ JoinedConditions_get_size(self) < MaxSize
        /\ IF ~Condition_raises(args.column_1, args.column_2)
           THEN /\ objs' = [objs EXCEPT
                               ![o] = JoinedConditions_add_condition(self, args)]
                /\ JoinedConditions_conditions' =
                       IF self.own THEN JoinedConditions_conditions
                       ELSE Append(JoinedConditions_conditions,
                                   Condition(args.column_1, args.column_2,
                                             args.compare_type,
                                             args.relation_type, is_first))
                /\ ret' = Changed("add_condition", o)
           ELSE /\ ret' = Returned("add_condition", o, UnsupportedJoinTypeError)
                /\ UNCHANGED <<objs, JoinedConditions_conditions>>
        /\ UNCHANGED <<ClauseBase_columns, JoinedTables_tables, Select_columns>>

\* JoinedConditions.clear
Call_JoinedConditions_clear(o) ==
    /\ objs[o].cls = "JoinedConditions"
    /\ objs' = [objs EXCEPT ![o] = JoinedConditions_clear(@)]
    /\ ret' = Changed("clear", o)
    /\ UNCHANGED <<ClauseBase_columns, JoinedConditions_conditions,
                   JoinedTables_tables, Select_columns>>

\* A JoinedConditions a program built: ON foo.alpha=bar.beta
ConditionsFooBar ==
    JoinedConditions_add_condition(
            JoinedConditions_init,
            [column_1 |-> Some(ColumnFooAlpha), column_2 |-> Some(ColumnBarBeta),
             compare_type |-> Some(CompareTypes_EQUALS),
             relation_type |-> Some(RelationTypes_AND)])

\* The arguments of JoinedTables.add_table
TableArgs ==
    Canonical({ [name |-> Some("foo"), alias |-> None, select |-> None,
           join |-> Some(JoinTypes_INNER_JOIN), condition |-> None],
          [name |-> Some("bar"), alias |-> Some("b"), select |-> None,
           join |-> Some(JoinTypes_LEFT_JOIN),
           condition |-> Some(ConditionsFooBar)],
          [name |-> None, alias |-> None, select |-> None,
           join |-> Some(JoinTypes_INNER_JOIN),
           condition |-> Some(ConditionsFooBar)] })

\* An add_table that marks every table as the first.
JoinedTables_table_marked_first(is_first, args) ==
    LET table == Table(args.name, args.alias, args.select, TRUE)
    IN  IF ~is_first
        THEN [table EXCEPT !.join = args.join, !.condition = args.condition]
        ELSE table

\* The table JoinedTables.add_table appends (the arguments do not make it
\* raise).
JoinedTables_table(is_first, args) ==
    LET table == Table(args.name, args.alias, args.select, is_first)
    IN  IF ~is_first
        THEN [table EXCEPT !.join = args.join, !.condition = args.condition]
        ELSE table

\* An add_table that does not ask for a condition.
JoinedTables_add_table_raises_for_name(is_first, args) ==
    IF Table_raises(args.name, args.alias, args.select)
    THEN NoneTableNameError
    ELSE ""

\* What JoinedTables.add_table raises: "" for nothing.
JoinedTables_add_table_raises(is_first, args) ==
    IF Table_raises(args.name, args.alias, args.select)
    THEN NoneTableNameError
    ELSE IF ~is_first /\ args.condition = None THEN UnsupportedJoinTypeError
    ELSE ""

JoinedTables_add_table(self, args) ==
    LET is_first == JoinedTables_get_size(self) = 0
    IN  [self EXCEPT !._tables =
            IF self.own THEN Append(@, JoinedTables_table(is_first, args))
            ELSE @]

\* JoinedTables()
Call_JoinedTables(o) ==
    /\ objs[o] = Free
    /\ objs' = [objs EXCEPT ![o] = JoinedTables_init]
    /\ ret' = Returned("__init__", o, NoneText)
    /\ UNCHANGED <<ClauseBase_columns, JoinedConditions_conditions,
                   JoinedTables_tables, Select_columns>>

\* JoinedTables.add_table
Call_add_table(o, args) ==
    LET self == objs[o]
        is_first == JoinedTables_get_size(self) = 0
        raises == JoinedTables_add_table_raises(is_first, args)
    IN  /\ self.cls = "JoinedTables"
        /\ JoinedTables_get_size(self) < MaxSize
        /\ IF raises = ""
           THEN /\ objs' = [objs EXCEPT ![o] = JoinedTables_add_table(self, args)]
                /\ JoinedTables_tables' =
                       IF self.own THEN JoinedTables_tables
                       ELSE Append(JoinedTables_tables,
                                   JoinedTables_table(is_first, args))
                /\ ret' = Changed("add_table", o)
           ELSE /\ ret' = Returned("add_table", o, raises)
                /\ UNCHANGED <<objs, JoinedTables_tables>>
        /\ UNCHANGED <<ClauseBase_columns, JoinedConditions_conditions,
                       Select_columns>>

\* JoinedTables.clear
Call_JoinedTables_clear(o) ==
    /\ objs[o].cls = "JoinedTables"
    /\ objs' = [objs EXCEPT ![o] = JoinedTables_clear(@)]
    /\ ret' = Changed("clear", o)
    /\ UNCHANGED <<ClauseBase_columns, JoinedConditions_conditions,
                   JoinedTables_tables, Select_columns>>

\* Select()
Call_Select(o) ==
    /\ objs[o] = Free
    /\ objs' = [objs EXCEPT ![o] = Select_new]
    /\ ret' = Returned("__init__", o, NoneText)
    /\ UNCHANGED <<ClauseBase_columns, JoinedConditions_conditions,
                   JoinedTables_tables, Select_columns>>

\* Select.add_column: self._columns is the list of the class.
Call_Select_add_column(o, args) ==
    LET is_first == Len(Select_columns) = 0
    IN  /\ objs[o].cls = "Select"
        /\ Len(Select_columns) < MaxSize
        /\ IF args.column_name # None
           THEN /\ Select_columns' =
                       Append(Select_columns,
                              Select_column(is_first, args.column_name[1],
                                            args.table_name, args.aggr_func,
                                            args.alias))
                /\ ret' = Returned("add_column", o, NoneText)
           ELSE /\ ret' = Returned("add_column", o, NoneColumnNameError)
                /\ UNCHANGED Select_columns
        /\ UNCHANGED <<objs, ClauseBase_columns, JoinedConditions_conditions,
                       JoinedTables_tables>>

\* The setters of Select: attribute is the attribute the setter assigns.  Each
\* returns None; ret records them all as "set".
Select_set(self, attribute, value) ==
    CASE attribute = "_distinct" -> [self EXCEPT !._distinct = value]
      [] attribute = "_tables" -> [self EXCEPT !._tables = value]
      [] attribute = "_where" -> [self EXCEPT !._where = value]
      [] attribute = "_having" -> [self EXCEPT !._having = value]
      [] attribute = "_group_by" -> [self EXCEPT !._group_by = value]
      [] attribute = "_order_by" -> [self EXCEPT !._order_by = value]

Call_set_distinct(o, distinct) ==
    /\ objs[o].cls = "Select"
    /\ objs' = [objs EXCEPT ![o] = Select_set(@, "_distinct", distinct)]
    /\ ret' = Returned("set", o, NoneText)
    /\ UNCHANGED <<ClauseBase_columns, JoinedConditions_conditions,
                   JoinedTables_tables, Select_columns>>

\* The objects a program passes to the setters of Select.
TablesFoo ==
    JoinedTables_add_table(
            JoinedTables_init,
            [name |-> Some("foo"), alias |-> None, select |-> None,
             join |-> Some(JoinTypes_INNER_JOIN), condition |-> None])

TablesFooLeftJoinBar ==
    JoinedTables_add_table(
            TablesFoo,
            [name |-> Some("bar"), alias |-> None, select |-> None,
             join |-> Some(JoinTypes_LEFT_JOIN),
             condition |-> Some(ConditionsFooBar)])

TablesArgs == Canonical({TablesFoo, TablesFooLeftJoinBar})

\* A clause of class cls as built by: nothing; one add_column; set_raw_sql.
ClauseObjects(cls) ==
    Canonical({ ClauseBase_init(cls),
                ClauseBase_add_column(
                    ClauseBase_init(cls),
                    CHOOSE args \in ClauseArgs(cls) : args.column_name # None),
                set_raw_sql(ClauseBase_init(cls), Some("1 = 1")) })

Call_set_tables(o, tables) ==
    /\ objs[o].cls = "Select"
    /\ objs' = [objs EXCEPT ![o] = Select_set(@, "_tables", Some(tables))]
    /\ ret' = Returned("set", o, NoneText)
    /\ UNCHANGED <<ClauseBase_columns, JoinedConditions_conditions,
                   JoinedTables_tables, Select_columns>>

Call_set_where(o, where) ==
    /\ objs[o].cls = "Select"
    /\ objs' = [objs EXCEPT ![o] = Select_set(@, "_where", Some(where))]
    /\ ret' = Returned("set", o, NoneText)
    /\ UNCHANGED <<ClauseBase_columns, JoinedConditions_conditions,
                   JoinedTables_tables, Select_columns>>

Call_set_having(o, having) ==
    /\ objs[o].cls = "Select"
    /\ objs' = [objs EXCEPT ![o] = Select_set(@, "_having", Some(having))]
    /\ ret' = Returned("set", o, NoneText)
    /\ UNCHANGED <<ClauseBase_columns, JoinedConditions_conditions,
                   JoinedTables_tables, Select_columns>>

Call_set_group_by(o, group_by) ==
    /\ objs[o].cls = "Select"
    /\ objs' = [objs EXCEPT ![o] = Select_set(@, "_group_by", Some(group_by))]
    /\ ret' = Returned("set", o, NoneText)
    /\ UNCHANGED <<ClauseBase_columns, JoinedConditions_conditions,
                   JoinedTables_tables, Select_columns>>

Call_set_order_by(o, order_by) ==
    /\ objs[o].cls = "Select"
    /\ objs' = [objs EXCEPT ![o] = Select_set(@, "_order_by", Some(order_by))]
    /\ ret' = Returned("set", o, NoneText)
    /\ UNCHANGED <<ClauseBase_columns, JoinedConditions_conditions,
                   JoinedTables_tables, Select_columns>>

\* to_sql: the text (or the exception) is returned; nothing is assigned.
\* A rendering that uses up the raw SQL text of the instance.
Call_to_sql_consuming(o, dialect) ==
    /\ objs[o] # Free
    /\ ret' = [call |-> "to_sql", self |-> o, dialect |-> dialect,
               out |-> to_sql(objs[o], dialect)]
    /\ objs' = [objs EXCEPT ![o]._raw_sql = None]
    /\ UNCHANGED <<ClauseBase_columns, JoinedConditions_conditions,
                   JoinedTables_tables, Select_columns>>

Call_to_sql(o, dialect) ==
    /\ objs[o] # Free
    /\ ret' = [call |-> "to_sql", self |-> o, dialect |-> dialect,
               out |-> to_sql(objs[o], dialect)]
    /\ UNCHANGED <<objs, ClauseBase_columns, JoinedConditions_conditions,
                   JoinedTables_tables, Select_columns>>

(***************************************************************************)
(* Spec: a program that builds one Select statement, as SelectTest does.   *)
(***************************************************************************)
Init ==
    /\ objs = [o \in Slots |-> IF o = "a" THEN Select_new ELSE Free]
    /\ ClauseBase_columns = <<>>
    /\ JoinedConditions_conditions = <<>>
    /\ JoinedTables_tables = <<>>
    /\ Select_columns = <<>>
    /\ ret = NoCall

Next ==
    \/ \E o \in Slots, args \in SelectColumnArgs : Call_Select_add_column(o, args)
    \/ \E o \in Slots, distinct \in BOOLEAN : Call_set_distinct(o, distinct)
    \/ \E o \in Slots, sql \in RawSqlArgs : Call_set_raw_sql(o, sql)
    \/ \E o \in Slots, tables \in TablesArgs : Call_set_tables(o, tables)
    \/ \E o \in Slots, where \in ClauseObjects("Where") : Call_set_where(o, where)
    \/ \E o \in Slots, having \in ClauseObjects("Having") :
            Call_set_having(o, having)
    \/ \E o \in Slots, group_by \in ClauseObjects("GroupBy") :
            Call_set_group_by(o, group_by)
    \/ \E o \in Slots, order_by \in ClauseObjects("OrderBy") :
            Call_set_order_by(o, order_by)
    \/ \E o \in Slots, dialect \in Dialects : Call_to_sql(o, dialect)

Spec == Init /\ [][Next]_vars

(***************************************************************************)
(* SpecInstances: a program that constructs instances of the classes and   *)
(* adds to them, clears them and renders them, as the tests' setUp and     *)
(* tearDown do between tests.                                              *)
(***************************************************************************)
InitInstances ==
    /\ objs = [o \in Slots |-> Free]
    /\ ClauseBase_columns = <<>>
    /\ JoinedConditions_conditions = <<>>
    /\ JoinedTables_tables = <<>>
    /\ Select_columns = <<>>
    /\ ret = NoCall

NextInstances ==
    \/ \E o \in Slots, cls \in ClauseClasses : Call_Clause(o, cls)
    \/ \E o \in Slots : Call_JoinedConditions(o)
    \/ \E o \in Slots : Call_JoinedTables(o)
    \/ \E o \in Slots : Call_Select(o)
    \/ \E o \in Slots : \E args \in ClauseArgs(objs[o].cls) :
            Call_add_column(o, args)
    \/ \E o \in Slots, args \in ConditionArgs : Call_add_condition(o, args)
    \/ \E o \in Slots, args \in TableArgs : Call_add_table(o, args)
    \/ \E o \in Slots, args \in SelectColumnArgs : Call_Select_add_column(o, args)
    \/ \E o \in Slots, sql \in RawSqlArgs : Call_set_raw_sql(o, sql)
    \/ \E o \in Slots : Call_clear(o)
    \/ \E o \in Slots : Call_JoinedConditions_clear(o)
    \/ \E o \in Slots : Call_JoinedTables_clear(o)
    \/ \E o \in Slots, dialect \in Dialects : Call_to_sql(o, dialect)

SpecInstances == InitInstances /\ [][NextInstances]_vars

(***************************************************************************)
(* SpecUnits: a program that uses one unit at a time, as the unit tests    *)
(* do: the static methods of SQLUtils (SQLUtilityTest), one clause         *)
(* (WhereTest, HavingTest, GroupByTest, OrderByTest) or one                *)
(* JoinedConditions (JoinedConditionsTest).                                *)
(***************************************************************************)
\* The name under which the program holds the instance under test.
UnitSlots == {"a"}

\* The codes a program passes: None, the codes of connector/constants.py
\* and codes that are none of them.
CodeArgs == Canonical({None} \cup {Some(code) : code \in UnknownCode..16})

\* The values a program passes to get_operator_with_value.
ValueArgs == Canonical({PyStr("bar"), PyStr(""), PyInt(1), PyNone})

\* The column texts a program passes to get_aggr_func_with_column.
ColumnNameArgs == {"test", "foo.alpha"}

\* The arguments of Where.add_column: those of WhereTest.TestColumns, and
\* values with quotes, an absent relation and a relation that is no code.
WhereTestArgs ==
    Canonical(WhereArgs \cup
        { [column_name |-> Some("foo"), column_value |-> PyStr("bar"),
           table_name |-> None, column_type |-> Some(ValueTypes_STRING),
           compare_type |-> Some(CompareTypes_EQUALS),
           relation_type |-> Some(RelationTypes_OR)],
          [column_name |-> Some("foo"), column_value |-> PyStr("ba'r"),
           table_name |-> None, column_type |-> Some(ValueTypes_STRING),
           compare_type |-> Some(CompareTypes_EQUALS),
           relation_type |-> Some(RelationTypes_AND)],
          [column_name |-> Some("foo"), column_value |-> PyStr("ba\"r"),
           table_name |-> None, column_type |-> Some(ValueTypes_STRING),
           compare_type |-> Some(CompareTypes_EQUALS),
           relation_type |-> Some(RelationTypes_OR)],
          [column_name |-> Some("alpha"), column_value |-> PyInt(1),
           table_name |-> Some("foo"), column_type |-> Some(ValueTypes_INTEGER),
           compare_type |-> Some(CompareTypes_EQUALS),
           relation_type |-> None],
          [column_name |-> Some("beta"), column_value |-> PyInt(1),
           table_name |-> None, column_type |-> Some(ValueTypes_INTEGER),
           compare_type |-> Some(CompareTypes_GREATER_THAN),
           relation_type |-> Some(UnknownCode)],
          [column_name |-> Some("foo"), column_value |-> PyNone,
           table_name |-> None, column_type |-> Some(ValueTypes_STRING),
           compare_type |-> Some(CompareTypes_EQUALS),
           relation_type |-> Some(RelationTypes_AND)],
          [column_name |-> Some("foo"), column_value |-> PyInt(1),
           table_name |-> None, column_type |-> Some(ValueTypes_INTEGER),
           compare_type |-> None,
           relation_type |-> Some(RelationTypes_AND)],
          [column_name |-> Some("foo"), column_value |-> PyStr("ba"),
           table_name |-> None, column_type |-> Some(ValueTypes_STRING),
           compare_type |-> Some(CompareTypes_BEGINS_WITH),
           relation_type |-> Some(RelationTypes_AND)],
          [column_name |-> Some("foo"), column_value |-> PyStr("ba"),
           table_name |-> None, column_type |-> Some(ValueTypes_STRING),
           compare_type |-> Some(CompareTypes_CONTAINS),
           relation_type |-> Some(RelationTypes_AND)],
          [column_name |-> Some("foo"), column_value |-> PyStr("x"),
           table_name |-> None, column_type |-> Some(ValueTypes_STRING),
           compare_type |-> Some(CompareTypes_NULL),
           relation_type |-> Some(RelationTypes_AND)],
          [column_name |-> Some("foo"), column_value |-> PyInt(1),
           table_name |-> None, column_type |-> Some(ValueTypes_INTEGER),
           compare_type |-> Some(CompareTypes_NOT_NULL),
           relation_type |-> Some(RelationTypes_AND)] })

\* The arguments of Having.add_column: those of HavingTest.TestColumns, each
\* aggregate function, and a function that is no code.
HavingTestArgs ==
    Canonical(HavingArgs \cup
        { [column_name |-> Some("alpha"),
           aggr_func |-> Some(AggregateFunctions_AVG), column_value |-> PyInt(1),
           table_name |-> None, column_type |-> Some(ValueTypes_INTEGER),
           compare_type |-> Some(CompareTypes_EQUALS),
           relation_type |-> Some(RelationTypes_AND)],
          [column_name |-> Some("beta"),
           aggr_func |-> Some(AggregateFunctions_SUM), column_value |-> PyInt(100),
           table_name |-> None, column_type |-> Some(ValueTypes_INTEGER),
           compare_type |-> Some(CompareTypes_LESS_THAN_OR_EQUAL),
           relation_type |-> Some(RelationTypes_OR)],
          [column_name |-> Some("alpha"),
           aggr_func |-> Some(AggregateFunctions_COUNT), column_value |-> PyInt(1),
           table_name |-> Some("foo"), column_type |-> Some(ValueTypes_INTEGER),
           compare_type |-> Some(CompareTypes_EQUALS),
           relation_type |-> Some(RelationTypes_AND)],
          [column_name |-> Some("alpha"),
           aggr_func |-> Some(AggregateFunctions_MAX), column_value |-> PyInt(1),
           table_name |-> None, column_type |-> Some(ValueTypes_INTEGER),
           compare_type |-> Some(CompareTypes_EQUALS),
           relation_type |-> Some(RelationTypes_AND)],
          [column_name |-> Some("alpha"),
           aggr_func |-> Some(AggregateFunctions_MIN), column_value |-> PyInt(1),
           table_name |-> None, column_type |-> Some(ValueTypes_INTEGER),
           compare_type |-> Some(CompareTypes_EQUALS),
           relation_type |-> Some(RelationTypes_AND)],
          [column_name |-> Some("alpha"),
           aggr_func |-> Some(UnknownCode), column_value |-> PyInt(1),
           table_name |-> None, column_type |-> Some(ValueTypes_INTEGER),
           compare_type |-> Some(CompareTypes_EQUALS),
           relation_type |-> Some(RelationTypes_AND)],
          [column_name |-> Some("alpha"),
           aggr_func |-> Some(UnknownCode), column_value |-> PyStr("ba'r"),
           table_name |-> None, column_type |-> Some(ValueTypes_STRING),
           compare_type |-> Some(CompareTypes_EQUALS),
           relation_type |-> Some(RelationTypes_AND)] })

\* The arguments of GroupBy.add_column and OrderBy.add_column: those of
\* GroupByTest.TestColumns and OrderByTest.TestColumns, and a column of a
\* table.
GroupByTestArgs ==
    Canonical(GroupByArgs \cup
        { [column_name |-> Some("alpha"), table_name |-> None],
          [column_name |-> Some("beta"), table_name |-> Some("foo")] })

OrderByTestArgs ==
    Canonical(OrderByArgs \cup
        { [column_name |-> Some("alpha"), asc |-> TRUE, table_name |-> None],
          [column_name |-> Some("beta"), asc |-> FALSE, table_name |-> None],
          [column_name |-> Some("beta"), asc |-> TRUE,
           table_name |-> Some("foo")] })

\* The arguments of JoinedConditions.add_condition: those of
\* JoinedConditionsTest, and other comparisons and relations.
ConditionTestArgs ==
    Canonical(ConditionArgs \cup
        { [column_1 |-> Some(ColumnFooAlphaLess10), column_2 |-> None,
           compare_type |-> Some(CompareTypes_EQUALS),
           relation_type |-> Some(RelationTypes_AND)],
          [column_1 |-> Some(ColumnBarBeta), column_2 |-> Some(ColumnFooAlpha),
           compare_type |-> Some(CompareTypes_GREATER_THAN_OR_EQUAL),
           relation_type |-> Some(RelationTypes_OR)],
          [column_1 |-> Some(ColumnFooAlphaLess10),
           column_2 |-> Some(ColumnBarBeta),
           compare_type |-> Some(CompareTypes_NOT_EQUAL),
           relation_type |-> None] })

ClauseTestArgs(cls) ==
    CASE cls = "Where" -> WhereTestArgs
      [] cls = "Having" -> HavingTestArgs
      [] cls = "GroupBy" -> GroupByTestArgs
      [] cls = "OrderBy" -> OrderByTestArgs
      [] OTHER -> {}

\* SQLUtils.get_operator_with_value(compare_type, value)
Call_get_operator_with_value(compare_type, value) ==
    /\ ret' = [call |-> "get_operator_with_value", self |-> "",
               compare_type |-> compare_type, value |-> value,
               out |-> get_operator_with_value(compare_type, value)]
    /\ UNCHANGED <<objs, ClauseBase_columns, JoinedConditions_conditions,
                   JoinedTables_tables, Select_columns>>

\* SQLUtils.get_sql_relation(relation)
Call_get_sql_relation(relation) ==
    /\ ret' = [call |-> "get_sql_relation", self |-> "", relation |-> relation,
               out |-> get_sql_relation(relation)]
    /\ UNCHANGED <<objs, ClauseBase_columns, JoinedConditions_conditions,
                   JoinedTables_tables, Select_columns>>

\* SQLUtils.get_sql_join_operator(join)
Call_get_sql_join_operator(join) ==
    /\ ret' = [call |-> "get_sql_join_operator", self |-> "", join |-> join,
               out |-> get_sql_join_operator(join)]
    /\ UNCHANGED <<objs, ClauseBase_columns, JoinedConditions_conditions,
                   JoinedTables_tables, Select_columns>>

\* SQLUtils.get_aggr_func_with_column(func_type, column_name)
Call_get_aggr_func_with_column(func_type, column_name) ==
    /\ ret' = [call |-> "get_aggr_func_with_column", self |-> "",
               func_type |-> func_type, column_name |-> column_name,
               out |-> get_aggr_func_with_column(func_type, column_name)]
    /\ UNCHANGED <<objs, ClauseBase_columns, JoinedConditions_conditions,
                   JoinedTables_tables, Select_columns>>

\* Condition(column_1, column_2, compare_type, relation_type)
Call_Condition(args) ==
    /\ ret' = [call |-> "Condition", self |-> "", column_1 |-> args.column_1,
               column_2 |-> args.column_2,
               out |-> IF Condition_raises(args.column_1, args.column_2)
                       THEN UnsupportedJoinTypeError ELSE NoneText]
    /\ UNCHANGED <<objs, ClauseBase_columns, JoinedConditions_conditions,
                   JoinedTables_tables, Select_columns>>

InitUnits ==
    /\ objs = [o \in Slots |-> Free]
    /\ ClauseBase_columns = <<>>
    /\ JoinedConditions_conditions = <<>>
    /\ JoinedTables_tables = <<>>
    /\ Select_columns = <<>>
    /\ ret = NoCall

\* SQLUtilityTest holds no instance of the classes of data/dml.py.
NoInstance == \A o \in Slots : objs[o] = Free

NextUnits ==
    \/ /\ NoInstance
       /\ \E compare_type \in CodeArgs, value \in ValueArgs :
            Call_get_operator_with_value(compare_type, value)
    \/ /\ NoInstance
       /\ \E relation \in CodeArgs : Call_get_sql_relation(relation)
    \/ /\ NoInstance
       /\ \E join \in CodeArgs : Call_get_sql_join_operator(join)
    \/ /\ NoInstance
       /\ \E func_type \in CodeArgs, column_name \in ColumnNameArgs :
            Call_get_aggr_func_with_column(func_type, column_name)
    \/ /\ NoInstance
       /\ \E args \in ConditionTestArgs : Call_Condition(args)
    \/ \E o \in UnitSlots, cls \in ClauseClasses : Call_Clause(o, cls)
    \/ \E o \in UnitSlots : Call_JoinedConditions(o)
    \/ \E o \in UnitSlots : \E args \in ClauseTestArgs(objs[o].cls) :
            Call_add_column(o, args)
    \/ \E o \in UnitSlots, args \in ConditionTestArgs :
            Call_add_condition(o, args)
    \/ \E o \in UnitSlots, sql \in RawSqlArgs : Call_set_raw_sql(o, sql)
    \/ \E o \in UnitSlots : Call_clear(o)
    \/ \E o \in UnitSlots : Call_JoinedConditions_clear(o)
    \/ \E o \in UnitSlots, dialect \in Dialects : Call_to_sql(o, dialect)

SpecUnits == InitUnits /\ [][NextUnits]_vars

(***************************************************************************)
(* SpecTables: a program that builds one JoinedTables, as JoinedTableTest  *)
(* does, from names and from the Select it holds as select.                *)
(***************************************************************************)
\* The names under which the program holds its JoinedTables and its Select.
TablesSlot == "a"

SelectSlot == "b"

\* Columns and the condition of JoinedTableTest.test_join_with_select:
\* ON f.alpha=b.alpha
ColumnFAlpha == [Column("alpha", TRUE) EXCEPT !.table = Some("f")]

ColumnBAlpha == [Column("alpha", TRUE) EXCEPT !.table = Some("b")]

ConditionsFB ==
    JoinedConditions_add_condition(
            JoinedConditions_init,
            [column_1 |-> Some(ColumnFAlpha), column_2 |-> Some(ColumnBAlpha),
             compare_type |-> Some(CompareTypes_EQUALS),
             relation_type |-> Some(RelationTypes_AND)])

\* The arguments of JoinedTables.add_table: those of JoinedTableTest, where
\* select is the Select the program holds (None when it holds none), and
\* others: no name, a join type that is no code or None, a JoinedConditions
\* without conditions.
TableTestArgs(select) ==
    Canonical(
        { [name |-> Some("foo"), alias |-> None, select |-> None,
           join |-> Some(JoinTypes_INNER_JOIN), condition |-> None],
          [name |-> Some("foo"), alias |-> Some("f"), select |-> None,
           join |-> Some(JoinTypes_INNER_JOIN), condition |-> None],
          [name |-> Some("bar"), alias |-> None, select |-> None,
           join |-> Some(JoinTypes_LEFT_JOIN),
           condition |-> Some(ConditionsFooBar)],
          [name |-> Some("bar"), alias |-> Some("b"), select |-> None,
           join |-> Some(JoinTypes_INNER_JOIN),
           condition |-> Some(ConditionsFB)],
          [name |-> None, alias |-> Some("f"), select |-> select,
           join |-> Some(JoinTypes_INNER_JOIN), condition |-> None],
          [name |-> None, alias |-> Some("s"), select |-> select,
           join |-> Some(JoinTypes_FULL_JOIN),
           condition |-> Some(ConditionsFooBar)],
          [name |-> None, alias |-> None, select |-> select,
           join |-> Some(JoinTypes_INNER_JOIN),
           condition |-> Some(ConditionsFooBar)],
          [name |-> Some("bar"), alias |-> None, select |-> None,
           join |-> Some(UnknownCode), condition |-> Some(ConditionsFooBar)],
          [name |-> Some("bar"), alias |-> None, select |-> None,
           join |-> None, condition |-> Some(ConditionsFooBar)],
          [name |-> Some("bar"), alias |-> None, select |-> None,
           join |-> Some(JoinTypes_RIGHT_JOIN),
           condition |-> Some(JoinedConditions_init)] })

\* The Select the program holds, as the select argument of add_table.
HeldSelect ==
    IF objs[SelectSlot].cls = "Select" THEN Some(objs[SelectSlot]) ELSE None

InitTables ==
    /\ objs = [o \in Slots |-> Free]
    /\ ClauseBase_columns = <<>>
    /\ JoinedConditions_conditions = <<>>
    /\ JoinedTables_tables = <<>>
    /\ Select_columns = <<>>
    /\ ret = NoCall

NextTables ==
    \/ Call_JoinedTables(TablesSlot)
    \/ Call_Select(SelectSlot)
    \/ \E args \in SelectColumnArgs : Call_Select_add_column(SelectSlot, args)
    \/ Call_set_tables(SelectSlot, TablesFoo)
    \/ \E args \in TableTestArgs(HeldSelect) : Call_add_table(TablesSlot, args)
    \/ \E sql \in RawSqlArgs : Call_set_raw_sql(TablesSlot, sql)
    \/ Call_JoinedTables_clear(TablesSlot)
    \/ \E o \in Slots, dialect \in Dialects : Call_to_sql(o, dialect)

SpecTables == InitTables /\ [][NextTables]_vars

(***************************************************************************)
(* What the claims speak of                                                *)
(***************************************************************************)
\* The last call was to_sql on instance o, of class cls, and returned text.
Rendered(o, cls) ==
    /\ ret.call = "to_sql"
    /\ ret.self = o
    /\ objs[o].cls = cls
    /\ ret.out \notin Raised

\* The columns of a Select in insertion order, separated by ", ".
SelectColumnsText(dialect) ==
    Concat([i \in 1..Len(Select_columns) |->
              (IF i > 1 THEN ", " ELSE "")
              \o Column_to_sql([Select_columns[i] EXCEPT !.is_first = TRUE],
                               dialect)])

SelectKeyword(self) == IF self._distinct THEN "SELECT DISTINCT " ELSE "SELECT "

\* C1: a Select with no raw SQL, no added columns and a table sequence set
\* renders to the SELECT keyword, "*", " FROM " and the rendered table
\* sequence, never to the empty string.
C1_SelectAllFromTables ==
    \A o \in Slots :
        (/\ Rendered(o, "Select")
         /\ objs[o]._raw_sql = None
         /\ Select_columns = <<>>
         /\ objs[o]._tables # None)
        => /\ ret.out = SelectKeyword(objs[o]) \o "*" \o " FROM "
                        \o JoinedTables_to_sql(objs[o]._tables[1], ret.dialect)
           /\ ret.out # ""

\* C2: a Select with no raw SQL, at least one added column and a table
\* sequence set renders to the SELECT keyword, the columns separated by ", ",
\* " FROM " and the rendered table sequence, followed by the clause fragments.
C2_ColumnsFromTables ==
    \A o \in Slots :
        (/\ Rendered(o, "Select")
         /\ objs[o]._raw_sql = None
         /\ Len(Select_columns) > 0
         /\ objs[o]._tables # None)
        => StartsWith(ret.out,
                      SelectKeyword(objs[o]) \o SelectColumnsText(ret.dialect)
                      \o " FROM "
                      \o JoinedTables_to_sql(objs[o]._tables[1], ret.dialect))

\* The text a clause attribute of a Select contributes, by the claim as
\* written and as amended.
C3_FragmentAsWritten(clause, dialect) ==
    IF clause = None \/ ClauseBase_get_size(clause[1]) = 0 THEN ""
    ELSE ClauseBase_to_sql(clause[1], dialect)

C3_Fragment(clause, dialect) ==
    IF clause = None
       \/ (ClauseBase_get_size(clause[1]) = 0 /\ ~Truthy(clause[1]._raw_sql))
    THEN ""
    ELSE ClauseBase_to_sql(clause[1], dialect)

C4_NonEmpty(clause) ==
    /\ clause # None
    /\ ClauseBase_get_size(clause[1]) > 0
    /\ clause[1]._raw_sql = None

\* C4: with Where, GroupBy, Having and OrderBy all set and non-empty, the
\* GROUP BY fragment comes before the HAVING fragment:
\* ... WHERE ... GROUP BY ... HAVING ... ORDER BY ...
C4_GroupByBeforeHaving ==
    \A o \in Slots :
        (/\ Rendered(o, "Select")
         /\ Len(Select_columns) > 0
         /\ objs[o]._raw_sql = None
         /\ C4_NonEmpty(objs[o]._where)
         /\ C4_NonEmpty(objs[o]._group_by)
         /\ C4_NonEmpty(objs[o]._having)
         /\ C4_NonEmpty(objs[o]._order_by))
        => \E head \in {SelectKeyword(objs[o])
                        \o SelectColumnsText(ret.dialect)} :
             \E tables \in {"", " FROM " \o
                                (IF objs[o]._tables = None THEN ""
                                 ELSE JoinedTables_to_sql(objs[o]._tables[1],
                                                          ret.dialect))} :
               ret.out = head \o tables
                         \o ClauseBase_to_sql(objs[o]._where[1], ret.dialect)
                         \o ClauseBase_to_sql(objs[o]._group_by[1], ret.dialect)
                         \o ClauseBase_to_sql(objs[o]._having[1], ret.dialect)
                         \o ClauseBase_to_sql(objs[o]._order_by[1], ret.dialect)

\* C5: a newly constructed Select has zero columns, whatever add_column
\* calls were made before on other Select instances.
C5_NewSelectHasNoColumns ==
    \A o \in Slots :
        (ret.call = "__init__" /\ ret.self = o /\ objs[o].cls = "Select")
        => Len(Select_columns) = 0

\* The size by get_size of the instance's class.
C6_Size(self) ==
    CASE self.cls \in ClauseClasses -> ClauseBase_get_size(self)
      [] self.cls = "JoinedConditions" -> JoinedConditions_get_size(self)
      [] self.cls = "JoinedTables" -> JoinedTables_get_size(self)

\* C6: Where, Having, GroupBy, OrderBy, JoinedConditions and JoinedTables
\* instances own their lists: a newly constructed instance has size 0, and a
\* call that adds to or clears one instance leaves the size and the rendered
\* text of every other instance as they were before the call.
C6_InstancesOwnTheirLists ==
    /\ \A o \in Slots :
          (ret.call = "__init__" /\ ret.self = o /\ objs[o].cls \in Containers)
          => C6_Size(objs[o]) = 0
    /\ "others" \in DOMAIN ret
       => \A p \in Slots \ {ret.self} : Observed(p) = ret.others[p]

\* Two instances of one class, one filled after the other was constructed,
\* the other still empty.
C6_Witness ==
    /\ objs["a"].cls = "Where"
    /\ objs["b"].cls = "Where"
    /\ ret.call = "add_column"
    /\ ret.self = "a"
    /\ ret.out = NoneText
    /\ C6_Size(objs["a"]) = MaxSize
    /\ C6_Size(objs["b"]) = 0
    /\ ret.others["b"] = Some([size |-> 0, text |-> ""])

C7_Step ==
    ret'.call = "to_sql"
    => /\ UNCHANGED <<objs, ClauseBase_columns, JoinedConditions_conditions,
                      JoinedTables_tables, Select_columns>>
       /\ ret'.out = to_sql(objs'[ret'.self], ret'.dialect)
       /\ (ret.call = "to_sql" /\ ret.self = ret'.self
           /\ ret.dialect = ret'.dialect)
          => ret'.out = ret.out

C8_DistinctKeyword ==
    \A o \in Slots :
        (/\ ret.call = "to_sql" /\ ret.self = o /\ objs[o].cls = "Select"
         /\ \/ Truthy(objs[o]._raw_sql)
            \/ Len(Select_columns) > 0
            \/ objs[o]._tables # None)
        => IF objs[o]._distinct
           THEN StartsWith(ret.out, "SELECT DISTINCT ")
           ELSE /\ StartsWith(ret.out, "SELECT ")
                /\ ~StartsWith(ret.out, "SELECT DISTINCT ")

\* C9 as written: once raw SQL is set on a Select, the text is the SELECT
\* keyword followed by exactly that raw SQL, whatever columns, tables and
\* clauses are set.
C9_RawSqlAsWritten ==
    \A o \in Slots :
        (Rendered(o, "Select") /\ objs[o]._raw_sql # None)
        => ret.out = SelectKeyword(objs[o]) \o objs[o]._raw_sql[1]

\* C9 as amended: once non-empty raw SQL is set on a Select, the text is the
\* SELECT keyword followed by exactly that raw SQL, whatever columns, tables
\* and clauses are set.
C9_RawSql ==
    \A o \in Slots :
        (/\ Rendered(o, "Select")
         /\ objs[o]._raw_sql # None
         /\ objs[o]._raw_sql[1] # "")
        => ret.out = SelectKeyword(objs[o]) \o objs[o]._raw_sql[1]

\* Raw SQL text on a distinct Select that has columns and a clause with a
\* column of its own.
C9_Witness ==
    /\ Rendered("a", "Select")
    /\ Len(Select_columns) = MaxSize
    /\ objs["a"]._order_by # None
    /\ ClauseBase_get_size(objs["a"]._order_by[1]) > 0
    /\ objs["a"]._raw_sql = Some("1 AS one")
    /\ ret.out = "SELECT DISTINCT 1 AS one"

C10_Keyword(cls) ==
    CASE cls = "Where" -> " WHERE "
      [] cls = "Having" -> " HAVING "
      [] cls = "GroupBy" -> " GROUP BY "
      [] cls = "OrderBy" -> " ORDER BY "

\* C10 as written: a Where, Having, GroupBy or OrderBy with raw text set
\* renders to its keyword followed by exactly that raw text, whatever columns
\* were added before or after.
C10_ClauseRawSqlAsWritten ==
    \A o \in Slots :
        (/\ ret.call = "to_sql" /\ ret.self = o
         /\ objs[o].cls \in ClauseClasses
         /\ objs[o]._raw_sql # None)
        => ret.out = C10_Keyword(objs[o].cls) \o objs[o]._raw_sql[1]

\* C10 as amended: a Where, Having, GroupBy or OrderBy with non-empty raw text
\* set renders to its keyword followed by exactly that raw text, whatever
\* columns were added before or after.
C10_ClauseRawSql ==
    \A o \in Slots :
        (/\ ret.call = "to_sql" /\ ret.self = o
         /\ objs[o].cls \in ClauseClasses
         /\ objs[o]._raw_sql # None
         /\ objs[o]._raw_sql[1] # "")
        => ret.out = C10_Keyword(objs[o].cls) \o objs[o]._raw_sql[1]

\* Raw text on a clause that holds columns.
C10_Witness ==
    /\ Rendered("a", "GroupBy")
    /\ ClauseBase_get_size(objs["a"]) = MaxSize
    /\ objs["a"]._raw_sql = Some("1 AS one")
    /\ ret.out = " GROUP BY 1 AS one"

\* C11: a Where, Having, GroupBy or OrderBy with no raw SQL and no columns
\* renders to the empty string, without its keyword; a clause is in that
\* case just after clear(), whatever was added or set before.
C11_EmptyClauseRendersNothing ==
    \A o \in Slots :
        objs[o].cls \in ClauseClasses =>
            /\ (Rendered(o, objs[o].cls) /\ objs[o]._raw_sql = None
                    /\ ClauseBase_get_size(objs[o]) = 0)
               => ret.out = ""
            /\ (ret.call = "clear" /\ ret.self = o)
               => /\ objs[o]._raw_sql = None
                  /\ ClauseBase_get_size(objs[o]) = 0
                  /\ \A dialect \in Dialects : to_sql(objs[o], dialect) = ""

C11_Witness ==
    /\ objs["a"].cls = "Having"
    /\ objs["a"]._raw_sql = None
    /\ ClauseBase_get_size(objs["a"]) = 0
    /\ ret = [call |-> "to_sql", self |-> "a", dialect |-> QuotingDialect,
              out |-> ""]

\* The text of a column without what separates it from the column before.
C12_Comparison(column, dialect) ==
    Column_to_sql([column EXCEPT !.is_first = TRUE], dialect)

\* The last call rendered the Where o, which has no raw SQL, at least one
\* column and no column that is dropped.
C12_RenderedWhere(o) ==
    /\ Rendered(o, "Where")
    /\ objs[o]._raw_sql = None
    /\ ClauseBase_get_size(objs[o]) >= 1
    /\ \A i \in 1..ClauseBase_get_size(objs[o]) :
          C12_Comparison(ClauseBase_get_columns(objs[o])[i], ret.dialect)
              # NoneText

C13_Reference(column, dialect) ==
    IF column.table # None
    THEN table2sql(dialect, column.table[1]) \o "." \o
         column2sql(dialect, column.name)
    ELSE column2sql(dialect, column.name)

\* The keyword of the clause, then the references of its columns in insertion
\* order separated by ", ", each followed by " DESC" when the clause is an
\* OrderBy and the column was added with asc=False.
C13_Columns(self, dialect) ==
    LET columns == ClauseBase_get_columns(self)
    IN  Concat(<<IF self.cls = "GroupBy" THEN " GROUP BY " ELSE " ORDER BY ">>
               \o [i \in 1..Len(columns) |->
                      (IF i > 1 THEN ", " ELSE "")
                      \o C13_Reference(columns[i], dialect)
                      \o (IF self.cls = "OrderBy" /\ ~columns[i].asc
                          THEN " DESC" ELSE "")])

\* C13 as written: every GroupBy and OrderBy with n >= 1 columns renders so.
C13_GroupOrderColumnsAsWritten ==
    \A o \in Slots :
        (/\ objs[o].cls \in {"GroupBy", "OrderBy"}
         /\ Rendered(o, objs[o].cls)
         /\ ClauseBase_get_size(objs[o]) >= 1)
        => ret.out = C13_Columns(objs[o], ret.dialect)

\* C13: a GroupBy or OrderBy with n >= 1 columns and no non-empty raw SQL
\* renders to its keyword and its column references in insertion order
\* separated by ", "; in an OrderBy a column added with asc=False is followed
\* by " DESC" and one added with asc=True by nothing.
C13_GroupOrderColumns ==
    \A o \in Slots :
        (/\ objs[o].cls \in {"GroupBy", "OrderBy"}
         /\ Rendered(o, objs[o].cls)
         /\ ~Truthy(objs[o]._raw_sql)
         /\ ClauseBase_get_size(objs[o]) >= 1)
        => ret.out = C13_Columns(objs[o], ret.dialect)

C13_Witness ==
    /\ objs["a"].cls = "OrderBy"
    /\ ~Truthy(objs["a"]._raw_sql)
    /\ ClauseBase_get_size(objs["a"]) = MaxSize
    /\ ret = [call |-> "to_sql", self |-> "a", dialect |-> Dialect,
              out |-> " ORDER BY alpha, beta DESC"]

\* C14: a Where with no raw SQL whose only column has a string-typed value
\* with a single or double quote in it renders to the empty string, and the
\* rendering raises nothing.
C14_QuotedValueDropsClause ==
    \A o \in Slots :
        (/\ ret.call = "to_sql" /\ ret.self = o
         /\ objs[o].cls = "Where"
         /\ objs[o]._raw_sql = None
         /\ ClauseBase_get_size(objs[o]) = 1
         /\ LET column == ClauseBase_get_columns(objs[o])[1]
            IN  /\ column.type = Some(ValueTypes_STRING)
                /\ column.value.t = "str"
                /\ \/ StrContains(column.value.s, "'")
                   \/ StrContains(column.value.s, "\""))
        => ret.out = ""

\* The operator texts of the 16 comparator codes; "=" for any other code.
C15_Operator(compare_type) ==
    LET texts == <<"=", "!=", ">", ">=", "<", "<=", " LIKE ", " NOT LIKE ",
                   " LIKE ", " NOT LIKE ", " LIKE ", " NOT LIKE ", " IN ",
                   " NOT IN ", " IS NULL", " IS NOT NULL">>
    IN  IF compare_type # None
           /\ compare_type[1] \in CompareTypes_EQUALS..CompareTypes_NOT_NULL
        THEN texts[compare_type[1] - CompareTypes_EQUALS + 1]
        ELSE "="

\* The value returned for a str v.
C15_Value(compare_type, v) ==
    IF compare_type \in {Some(CompareTypes_BEGINS_WITH),
                         Some(CompareTypes_NOT_BEGIN_WITH)}
    THEN v \o "%"
    ELSE IF compare_type \in {Some(CompareTypes_ENDS_WITH),
                              Some(CompareTypes_NOT_END_WITH)}
    THEN "%" \o v
    ELSE IF compare_type \in {Some(CompareTypes_CONTAINS),
                              Some(CompareTypes_NOT_CONTAIN)}
    THEN "%" \o v \o "%"
    ELSE IF compare_type \in {Some(CompareTypes_NULL),
                              Some(CompareTypes_NOT_NULL)}
    THEN ""
    ELSE v

\* C15: get_operator_with_value(code, v) returns, for the 16 comparator
\* codes, "=", "!=", ">", ">=", "<", "<=" with v; " LIKE " and " NOT LIKE "
\* with v + "%", "%" + v and "%" + v + "%"; " IN " and " NOT IN " with v;
\* " IS NULL" and " IS NOT NULL" with ""; and for any other code "=" with v.
\* v is a str; where the value is returned as it was or replaced by "", any
\* v is.
C15_OperatorWithValue ==
    ret.call = "get_operator_with_value" =>
        /\ ret.value.t = "str"
           => ret.out = [operator |-> C15_Operator(ret.compare_type),
                         value |-> PyStr(C15_Value(ret.compare_type,
                                                   ret.value.s)),
                         raised |-> ""]
        /\ (ret.value.t # "str" /\ ret.out.raised = "")
           => /\ ret.out.operator = C15_Operator(ret.compare_type)
              /\ ret.out.value =
                    IF ret.compare_type \in {Some(CompareTypes_NULL),
                                             Some(CompareTypes_NOT_NULL)}
                    THEN PyStr("") ELSE ret.value

C15_Witness ==
    /\ ret.call = "get_operator_with_value"
    /\ ret.compare_type = Some(CompareTypes_NOT_END_WITH)
    /\ ret.value = PyStr("bar")
    /\ ret.out = [operator |-> " NOT LIKE ", value |-> PyStr("%bar"),
                  raised |-> ""]

\* C16: get_sql_relation returns " AND " for the AND code and " OR " for any
\* other input: the OR code, a code that is no relation, no code at all.  It
\* raises nothing and returns no other text.
C16_Relation ==
    ret.call = "get_sql_relation" =>
        /\ ret.out \in {" AND ", " OR "}
        /\ ret.out = " AND " <=> ret.relation = Some(RelationTypes_AND)

C16_Witness ==
    /\ ret.call = "get_sql_relation"
    /\ ret.relation = Some(UnknownCode)
    /\ ret.out = " OR "

\* C17: get_sql_join_operator returns " INNER JOIN ", " RIGHT JOIN ",
\* " LEFT JOIN " and " FULL JOIN " for the codes INNER_JOIN, RIGHT_JOIN,
\* LEFT_JOIN and FULL_JOIN, and None for any other code.
C17_JoinOperator ==
    ret.call = "get_sql_join_operator" =>
        /\ ret.join = Some(JoinTypes_INNER_JOIN) => ret.out = " INNER JOIN "
        /\ ret.join = Some(JoinTypes_RIGHT_JOIN) => ret.out = " RIGHT JOIN "
        /\ ret.join = Some(JoinTypes_LEFT_JOIN) => ret.out = " LEFT JOIN "
        /\ ret.join = Some(JoinTypes_FULL_JOIN) => ret.out = " FULL JOIN "
        /\ ret.join \notin {Some(JoinTypes_INNER_JOIN), Some(JoinTypes_RIGHT_JOIN),
                            Some(JoinTypes_LEFT_JOIN), Some(JoinTypes_FULL_JOIN)}
           => ret.out = NoneText

C17_Witness ==
    /\ ret.call = "get_sql_join_operator"
    /\ ret.join = Some(UnknownCode)
    /\ ret.out = NoneText

\* The name of the aggregate function of a code, None when it has none.
C18_Function(func_type) ==
    IF func_type = Some(AggregateFunctions_AVG) THEN Some("AVG")
    ELSE IF func_type = Some(AggregateFunctions_COUNT) THEN Some("COUNT")
    ELSE IF func_type = Some(AggregateFunctions_MAX) THEN Some("MAX")
    ELSE IF func_type = Some(AggregateFunctions_MIN) THEN Some("MIN")
    ELSE IF func_type = Some(AggregateFunctions_SUM) THEN Some("SUM")
    ELSE None

\* C18: for the codes AVG, COUNT, MAX, MIN and SUM,
\* get_aggr_func_with_column(code, c) returns the function's name, "(", c and
\* ")", and None for any other code; a column with such a code renders that
\* text where its reference would be: a Having with one column compared with
\* an integer renders " HAVING ", the function applied to the reference, the
\* operator and the integer.
C18_AggregateFunction ==
    /\ ret.call = "get_aggr_func_with_column" =>
          ret.out = IF C18_Function(ret.func_type) = None THEN NoneText
                    ELSE C18_Function(ret.func_type)[1] \o "(" \o
                         ret.column_name \o ")"
    /\ \A o \in Slots :
          (/\ Rendered(o, "Having")
           /\ objs[o]._raw_sql = None
           /\ ClauseBase_get_size(objs[o]) = 1
           /\ C18_Function(ClauseBase_get_columns(objs[o])[1].func) # None
           /\ ClauseBase_get_columns(objs[o])[1].value.t = "int")
          => LET column == ClauseBase_get_columns(objs[o])[1]
             IN  ret.out =
                    " HAVING " \o C18_Function(column.func)[1] \o "(" \o
                    C13_Reference(column, ret.dialect) \o ")" \o
                    C15_Operator(column.compare) \o ToString(column.value.n)

C18_Witness ==
    /\ objs["a"].cls = "Having"
    /\ ClauseBase_get_size(objs["a"]) = 1
    /\ ClauseBase_get_columns(objs["a"])[1].func = Some(AggregateFunctions_AVG)
    /\ ret = [call |-> "to_sql", self |-> "a", dialect |-> Dialect,
              out |-> " HAVING AVG(alpha)=1"]

\* Condition.__init__ is given no column_1, or a column_1 without a value and
\* no column_2.
C19_Unsupported(column_1, column_2) ==
    \/ column_1 = None
    \/ column_1[1].value = PyNone /\ column_2 = None

\* A call of add_condition with such arguments raises
\* UnsupportedJoinTypeError and leaves the instance and its conditions as
\* they were.
C19_Step ==
    \A o \in Slots, args \in ConditionTestArgs :
        (Call_add_condition(o, args)
            /\ C19_Unsupported(args.column_1, args.column_2))
        => /\ ret'.out = UnsupportedJoinTypeError
           /\ objs'[o] = objs[o]
           /\ JoinedConditions_conditions' = JoinedConditions_conditions

\* C19: constructing a Condition, directly or through add_condition, with
\* column_1 absent, or with a column_1 that has no value and column_2 absent,
\* raises UnsupportedJoinTypeError at that call, and the add_condition that
\* failed leaves the conditions of the JoinedConditions, and their number,
\* unchanged.
C19_ConditionRaises ==
    /\ [](ret.call = "Condition" /\ C19_Unsupported(ret.column_1, ret.column_2)
            => ret.out = UnsupportedJoinTypeError)
    /\ [][C19_Step]_vars

C19_Witness ==
    /\ objs["a"].cls = "JoinedConditions"
    /\ JoinedConditions_get_size(objs["a"]) = 1
    /\ ret = [call |-> "add_condition", self |-> "a",
              out |-> UnsupportedJoinTypeError]

\* The fragment of a condition without the relation before it: the left
\* column's own text when that column has a value, and otherwise the left
\* column, the operator and the right column.
C20_Fragment(condition, dialect) ==
    IF condition.column_1.value # PyNone
    THEN C12_Comparison(condition.column_1, dialect)
    ELSE C12_Comparison(condition.column_1, dialect)
         \o C15_Operator(condition.compare)
         \o C12_Comparison(condition.column_2[1], dialect)

\* C20: JoinedConditions.to_sql returns "" when no condition was added, and
\* otherwise " ON " and the fragments of the conditions in insertion order:
\* nothing before the first, " AND " or " OR " by its relation before each
\* later one.
C20_JoinedConditionsText ==
    \A o \in Slots :
        Rendered(o, "JoinedConditions") =>
            LET conditions == JoinedConditions_get_conditions(objs[o])
            IN  ret.out =
                  IF Len(conditions) = 0 THEN ""
                  ELSE Concat(<<" ON ">> \o
                         [i \in 1..Len(conditions) |->
                            (IF i = 1 THEN ""
                             ELSE IF conditions[i].relation
                                        = Some(RelationTypes_AND)
                             THEN " AND " ELSE " OR ")
                            \o C20_Fragment(conditions[i], ret.dialect)])

C20_Witness ==
    /\ objs["a"].cls = "JoinedConditions"
    /\ JoinedConditions_get_size(objs["a"]) = MaxSize
    /\ ret = [call |-> "to_sql", self |-> "a", dialect |-> Dialect,
              out |-> " ON foo.alpha=bar.beta AND foo.alpha<10"]

\* The arguments name a table: a name, or a Select and an alias.
C21_Named(args) ==
    args.name # None \/ (args.select # None /\ args.alias # None)

\* A call of add_table that names a table: without a condition on a
\* JoinedTables that holds a table, it raises UnsupportedJoinTypeError and
\* changes nothing; on one that holds none it returns, the table is added,
\* and the text is that of the table alone, built without the join type and
\* the condition.
C21_Step ==
    \A args \in TableTestArgs(HeldSelect) :
        (C21_Named(args) /\ Call_add_table(TablesSlot, args)) =>
            /\ (JoinedTables_get_size(objs[TablesSlot]) >= 1
                    /\ args.condition = None)
               => /\ ret'.out = UnsupportedJoinTypeError
                  /\ objs' = objs
                  /\ JoinedTables_tables' = JoinedTables_tables
            /\ JoinedTables_get_size(objs[TablesSlot]) = 0
               => /\ ret'.out = NoneText
                  /\ Len(objs'[TablesSlot]._tables) = 1
                  /\ ~Truthy(objs[TablesSlot]._raw_sql)
                     => \A dialect \in Dialects :
                           JoinedTables_to_sql(objs'[TablesSlot], dialect) =
                           Table_to_sql(Table(args.name, args.alias,
                                              args.select, TRUE), dialect)

\* C21: add_table without a join condition raises UnsupportedJoinTypeError
\* and leaves the tables unchanged when the JoinedTables holds a table, and
\* succeeds when it holds none; the join type and the condition given for the
\* first table are not in the text.
C21_FirstTableNeedsNoCondition == [][C21_Step]_vars

C21_Witness ==
    /\ objs[TablesSlot].cls = "JoinedTables"
    /\ JoinedTables_get_size(objs[TablesSlot]) = 1
    /\ ret = [call |-> "add_table", self |-> TablesSlot,
              out |-> UnsupportedJoinTypeError]

\* The last call rendered the JoinedTables, which has no raw SQL of its own,
\* so that its tables were rendered.
C22_RenderedTables ==
    /\ ret.call = "to_sql"
    /\ ret.self = TablesSlot
    /\ objs[TablesSlot].cls = "JoinedTables"
    /\ ~Truthy(objs[TablesSlot]._raw_sql)

\* The keyword of a join type: None for what is not one of the four codes.
C22_JoinKeyword(join) ==
    IF join = Some(JoinTypes_INNER_JOIN) THEN Some(" INNER JOIN ")
    ELSE IF join = Some(JoinTypes_LEFT_JOIN) THEN Some(" LEFT JOIN ")
    ELSE IF join = Some(JoinTypes_RIGHT_JOIN) THEN Some(" RIGHT JOIN ")
    ELSE IF join = Some(JoinTypes_FULL_JOIN) THEN Some(" FULL JOIN ")
    ELSE None

\* The text of a table by itself: the quoted name, with " AS " and the quoted
\* alias when it has an alias; or the nested Select's text in parentheses,
\* " AS " and the quoted alias.
C22_TableText(table, dialect) ==
    IF table.name # None
    THEN table2sql(dialect, table.name[1]) \o
         (IF table.alias # None
          THEN " AS " \o table2sql(dialect, table.alias[1]) ELSE "")
    ELSE "(" \o Select_to_sql(table.select[1], dialect) \o ") AS " \o
         table2sql(dialect, table.alias[1])

\* C22: a table that is not first renders as the keyword of its join type,
\* its own text and the " ON ..." fragment of its condition; when its join
\* type is not one of the four codes, to_sql raises UnsupportedJoinTypeError
\* instead of returning a text; the first table renders as its own text.
C22_JoinedTableText ==
    C22_RenderedTables =>
        LET tables == JoinedTables_get_tables(objs[TablesSlot])
        IN  IF \E i \in 2..Len(tables) : C22_JoinKeyword(tables[i].join) = None
            THEN ret.out = UnsupportedJoinTypeError
            ELSE ret.out =
                   Concat([i \in 1..Len(tables) |->
                      IF i = 1 THEN C22_TableText(tables[i], ret.dialect)
                      ELSE C22_JoinKeyword(tables[i].join)[1]
                           \o C22_TableText(tables[i], ret.dialect)
                           \o JoinedConditions_to_sql(tables[i].condition[1],
                                                      ret.dialect)])

C22_Witness ==
    /\ C22_RenderedTables
    /\ JoinedTables_get_size(objs[TablesSlot]) = MaxSize
    /\ ret.dialect = Dialect
    /\ ret.out = "foo LEFT JOIN bar ON foo.alpha=bar.beta"

\* The full SQL of a Select that has columns and tables and no raw SQL: the
\* keyword, the columns, " FROM " and the tables.
C23_SelectText(select, dialect) ==
    SelectKeyword(select) \o SelectColumnsText(dialect) \o " FROM " \o
    JoinedTables_to_sql(select._tables[1], dialect)

\* C23: a table built from a nested Select and an alias renders as "(", the
\* full SQL of the Select, ")", " AS " and the quoted alias; a table built
\* from a name renders as the quoted name, followed by " AS " and the quoted
\* alias only when an alias was given:
\* "(SELECT alpha, beta FROM foo) AS f INNER JOIN bar AS b ON f.alpha=b.alpha".
C23_NestedSelectTable ==
    (/\ C22_RenderedTables
     /\ ret.out \notin Raised
     /\ JoinedTables_get_size(objs[TablesSlot]) >= 1) =>
        LET table == JoinedTables_get_tables(objs[TablesSlot])[1]
        IN  /\ table.name # None
               => StartsWith(ret.out,
                     table2sql(ret.dialect, table.name[1]) \o
                     (IF table.alias # None
                      THEN " AS " \o table2sql(ret.dialect, table.alias[1])
                      ELSE ""))
            /\ (/\ table.name = None
                /\ table.select[1]._raw_sql = None
                /\ table.select[1]._tables # None
                /\ Len(Select_columns) > 0)
               => StartsWith(ret.out,
                     "(" \o C23_SelectText(table.select[1], ret.dialect)
                     \o ") AS " \o table2sql(ret.dialect, table.alias[1]))

\* A call that is given no identifier raises and changes nothing: add_column
\* of a clause or of a Select without a column name raises
\* NoneColumnNameError; add_table with no name and without both a Select and
\* an alias raises NoneTableNameError.
C24_Step ==
    /\ \A o \in Slots :
          \A args \in ClauseArgs(objs[o].cls) :
             (args.column_name = None /\ Call_add_column(o, args))
             => /\ ret'.out = NoneColumnNameError
                /\ objs' = objs
                /\ ClauseBase_columns' = ClauseBase_columns
    /\ \A o \in Slots, args \in SelectColumnArgs :
          (args.column_name = None /\ Call_Select_add_column(o, args))
          => /\ ret'.out = NoneColumnNameError
             /\ objs' = objs
             /\ Select_columns' = Select_columns
    /\ \A o \in Slots, args \in TableArgs :
          (/\ args.name = None
           /\ ~(args.select # None /\ args.alias # None)
           /\ Call_add_table(o, args))
          => /\ ret'.out = NoneTableNameError
             /\ objs' = objs
             /\ JoinedTables_tables' = JoinedTables_tables

\* C24: a missing identifier is rejected when it is given and never stored:
\* add_column without a column name, on Where, Having, GroupBy, OrderBy or
\* Select, raises NoneColumnNameError and leaves the columns unchanged; a
\* Table with no name and without both a nested Select and an alias raises
\* NoneTableNameError, and add_table leaves the tables unchanged.
C24_MissingIdentifierRejected == [][C24_Step]_vars

C24_Witness ==
    /\ objs["a"].cls = "Having"
    /\ ClauseBase_get_size(objs["a"]) = 1
    /\ objs["b"].cls = "JoinedTables"
    /\ JoinedTables_get_size(objs["b"]) = 1
    /\ ret = [call |-> "add_column", self |-> "a", out |-> NoneColumnNameError]

\* The column has an aggregate function code that is none of the five.
C25_UnknownFunction(column) ==
    column.func # None /\ C18_Function(column.func) = None

\* The column has a string-typed value with a quote in it, for which
\* Column.to_sql returns None before it looks at the function.
C25_Dropped(column) ==
    /\ column.type = Some(ValueTypes_STRING)
    /\ column.value.t = "str"
    /\ StrContains(column.value.s, "'") \/ StrContains(column.value.s, "\"")

C26_EndsWith(text, suffix) ==
    /\ Len(text) >= Len(suffix)
    /\ SubSeq(text, Len(text) - Len(suffix) + 1, Len(text)) = suffix

\* The value of the comparison: the wildcard-transformed value, nothing for
\* NULL and NOT_NULL.
C26_Value(column) ==
    IF column.value.t = "str"
    THEN C15_Value(column.compare, column.value.s)
    ELSE IF column.compare \in {Some(CompareTypes_NULL),
                                Some(CompareTypes_NOT_NULL)}
    THEN ""
    ELSE PyToStr(column.value)

\* The comparison suffix of a column: nothing unless both the comparator and
\* the value are set; else the operator text and the value, in single quotes
\* exactly when the type is STRING.
C26_Suffix(column) ==
    IF column.compare # None /\ column.value # PyNone
    THEN C15_Operator(column.compare) \o
         (IF column.type = Some(ValueTypes_STRING)
          THEN "'" \o C26_Value(column) \o "'"
          ELSE C26_Value(column))
    ELSE ""

\* C26: the text rendered by a Where with no raw SQL whose last column is not
\* dropped ends with that column's reference followed by its comparison
\* suffix, which is empty unless both comparator and value are set and else
\* the operator text and the (wildcard-transformed) value, in single quotes
\* exactly when the type is STRING; with one column the text is " WHERE "
\* followed by exactly that.
C26_ComparisonSuffix ==
    \A o \in Slots :
        (/\ Rendered(o, "Where")
         /\ objs[o]._raw_sql = None
         /\ ClauseBase_get_size(objs[o]) >= 1
         /\ ~C25_Dropped(ClauseBase_get_columns(objs[o])[
                             ClauseBase_get_size(objs[o])]))
        => LET columns == ClauseBase_get_columns(objs[o])
               last == columns[Len(columns)]
               fragment == C13_Reference(last, ret.dialect) \o C26_Suffix(last)
           IN  /\ C26_EndsWith(ret.out, fragment)
               /\ Len(columns) = 1 => ret.out = " WHERE " \o fragment

C26_Witness ==
    /\ objs["a"].cls = "Where"
    /\ objs["a"]._raw_sql = None
    /\ ClauseBase_get_size(objs["a"]) = 2
    /\ ClauseBase_get_columns(objs["a"])[1].value = PyNone
    /\ ClauseBase_get_columns(objs["a"])[1].compare # None
    /\ ret = [call |-> "to_sql", self |-> "a", dialect |-> Dialect,
              out |-> " WHERE foo AND foo LIKE '%ba%'"]

\* The element at the front is marked first, and no other element is.
C27_FirstAtFront(elements) ==
    \A i \in 1..Len(elements) : elements[i].is_first = (i = 1)

\* C27: in every state reached by constructing, adding to and clearing
\* clauses, JoinedConditions and JoinedTables, the element at the front of
\* each of their sequences has is_first = TRUE and every later element has
\* is_first = FALSE, and every table of a JoinedTables after the first has a
\* join condition.
C27_FirstMarksFront ==
    \A o \in Slots :
        /\ objs[o].cls \in ClauseClasses
           => C27_FirstAtFront(ClauseBase_get_columns(objs[o]))
        /\ objs[o].cls = "JoinedConditions"
           => C27_FirstAtFront(JoinedConditions_get_conditions(objs[o]))
        /\ objs[o].cls = "JoinedTables"
           => /\ C27_FirstAtFront(JoinedTables_get_tables(objs[o]))
              /\ \A i \in 2..JoinedTables_get_size(objs[o]) :
                    JoinedTables_get_tables(objs[o])[i].condition # None

C27_Witness ==
    /\ objs["a"].cls = "JoinedTables"
    /\ JoinedTables_get_size(objs["a"]) = 2
    /\ objs["b"].cls = "Where"
    /\ ClauseBase_get_size(objs["b"]) = 2
    /\ ret.call = "add_column"
    /\ ret.self = "b"
    /\ ret.out \notin Raised

\* C28: the text rendered by a Where or Having with no raw SQL never has
\* " AND " or " OR " directly after the clause keyword and never ends with
\* one of them, also when columns are dropped for a quote in their value.
C28_NoDanglingRelation ==
    \A o \in Slots :
        (/\ ret.call = "to_sql" /\ ret.self = o
         /\ objs[o].cls \in {"Where", "Having"}
         /\ objs[o]._raw_sql = None
         /\ ret.out \notin Raised)
        => \A relation \in {" AND ", " OR "} :
              /\ ~StartsWith(ret.out, create_keyword(objs[o]) \o relation)
              /\ ~C26_EndsWith(ret.out, relation)

\* C29: a Where with no raw SQL and one column whose comparator is NULL or
\* NOT_NULL and whose value is not None renders as " WHERE ", the column's
\* reference and " IS NULL" or " IS NOT NULL", with nothing after the
\* operator, whatever the value type.
C29_NullComparison ==
    \A o \in Slots :
        (/\ ret.call = "to_sql" /\ ret.self = o
         /\ objs[o].cls = "Where"
         /\ objs[o]._raw_sql = None
         /\ ClauseBase_get_size(objs[o]) = 1
         /\ ClauseBase_get_columns(objs[o])[1].value # PyNone
         /\ ClauseBase_get_columns(objs[o])[1].compare
                \in {Some(CompareTypes_NULL), Some(CompareTypes_NOT_NULL)})
        => LET column == ClauseBase_get_columns(objs[o])[1]
           IN  ret.out = " WHERE " \o C13_Reference(column, ret.dialect) \o
                         (IF column.compare = Some(CompareTypes_NULL)
                          THEN " IS NULL" ELSE " IS NOT NULL")

\* C30: every table of a JoinedTables after the first carries a
\* JoinedConditions that holds at least one condition, so that it renders
\* with an " ON ..." fragment.
C30_JoinHasConditions ==
    \A o \in Slots :
        objs[o].cls = "JoinedTables" =>
            \A i \in 2..JoinedTables_get_size(objs[o]) :
                LET table == JoinedTables_get_tables(objs[o])[i]
                IN  /\ table.condition # None
                    /\ JoinedConditions_get_size(table.condition[1]) >= 1

=============================================================================
